---------------------------- MODULE Spec2Model ----------------------------
(***************************************************************************)
(* A model of the WKB decoder of liblwgeom (lwin_wkb.cpp) and of the parts *)
(* of the geometry object model (lwgeom.cpp) the decoder relies on.        *)
(*                                                                         *)
(* The decoder is a recursive-descent parser over a byte buffer.  Every C  *)
(* function is one operator of the same name; the parse state the C code   *)
(* mutates in place through the pointer s is threaded through the          *)
(* operators as a record, and an operator that returns a value returns a   *)
(* record [s |-> the parse state after the call, v |-> the value].  The    *)
(* recursion of lwgeom_from_wkb_state is a state machine with the call     *)
(* stack in the state, one step per entry to and per return from           *)
(* lwgeom_from_wkb_state.                                                  *)
(*                                                                         *)
(* A byte is a number in 0..255.  A double is the sequence of its eight    *)
(* IEEE-754 bytes, most significant byte first; a 32-bit unsigned integer  *)
(* is the pair of its 16-bit halves, high half first.                      *)
(***************************************************************************)
EXTENDS Integers, Sequences, FiniteSets, TLC

VARIABLES
    pc,       \* where the program is: "idle" outside lwgeom_from_wkb,
              \* "lwgeom_from_wkb_state" about to enter that function,
              \* "return" about to return from it
    test,     \* the calls of lwgeom_from_wkb the program makes, in order
    state,    \* the parse state (wkb_parse_state s) of the running call
    stack,    \* the child loops waiting for lwgeom_from_wkb_state to return
    val,      \* the value lwgeom_from_wkb_state is returning
    results,  \* what the finished calls returned, and their final parse state
    hex,      \* the call of bytes_from_hexbytes the program made, if any
    api       \* the calls of measurement entry points the program makes, and
              \* what the finished ones returned

vars == <<pc, test, state, stack, val, results, hex, api>>

-----------------------------------------------------------------------------
(* Program constants                                                       *)

LW_PARSER_MAX_DEPTH == 200

WKB_BYTE_SIZE == 1
WKB_INT_SIZE == 4
WKB_DOUBLE_SIZE == 8

(* TLC's numbers are 32-bit signed, so an unsigned 32-bit value (uint32_t, *)
(* and a size_t computed from one) is held as the pair <<hi, lo>> of its   *)
(* 16-bit halves: the value is hi * 65536 + lo.                            *)
UINT_MAX == <<65535, 65535>>

SRID_UNKNOWN == 0
SRID_MAXIMUM == 999999
SRID_USER_MAXIMUM == 998999

WKBZOFFSET == <<32768, 0>>      \* 0x80000000
WKBMOFFSET == <<16384, 0>>      \* 0x40000000
WKBSRIDFLAG == <<8192, 0>>      \* 0x20000000

WKB_POINT_TYPE == 1
WKB_LINESTRING_TYPE == 2
WKB_POLYGON_TYPE == 3
WKB_MULTIPOINT_TYPE == 4
WKB_MULTILINESTRING_TYPE == 5
WKB_MULTIPOLYGON_TYPE == 6
WKB_GEOMETRYCOLLECTION_TYPE == 7
WKB_CIRCULARSTRING_TYPE == 8
WKB_COMPOUNDCURVE_TYPE == 9
WKB_CURVEPOLYGON_TYPE == 10
WKB_MULTICURVE_TYPE == 11
WKB_MULTISURFACE_TYPE == 12
WKB_CURVE_TYPE == 13
WKB_SURFACE_TYPE == 14
WKB_POLYHEDRALSURFACE_TYPE == 15
WKB_TIN_TYPE == 16
WKB_TRIANGLE_TYPE == 17

(* The check bitmask is modelled as the set of the flags that are set.     *)
LW_PARSER_CHECK_MINPOINTS == "MINPOINTS"
LW_PARSER_CHECK_ODD == "ODD"
LW_PARSER_CHECK_CLOSURE == "CLOSURE"
LW_PARSER_CHECK_ZCLOSURE == "ZCLOSURE"
LW_PARSER_CHECK_NONE == {}
LW_PARSER_CHECK_ALL ==
    {LW_PARSER_CHECK_MINPOINTS, LW_PARSER_CHECK_ODD, LW_PARSER_CHECK_CLOSURE}

(* The lwtype tags.  NOTYPE is the value 0 lwgeom_from_wkb stores in       *)
(* s.lwtype before the first header is decoded; it is no geometry type.    *)
NOTYPE == "NOTYPE"
POINTTYPE == "POINTTYPE"
LINETYPE == "LINETYPE"
POLYGONTYPE == "POLYGONTYPE"
MULTIPOINTTYPE == "MULTIPOINTTYPE"
MULTILINETYPE == "MULTILINETYPE"
MULTIPOLYGONTYPE == "MULTIPOLYGONTYPE"
COLLECTIONTYPE == "COLLECTIONTYPE"
CIRCSTRINGTYPE == "CIRCSTRINGTYPE"
COMPOUNDTYPE == "COMPOUNDTYPE"
CURVEPOLYTYPE == "CURVEPOLYTYPE"
MULTICURVETYPE == "MULTICURVETYPE"
MULTISURFACETYPE == "MULTISURFACETYPE"
POLYHEDRALSURFACETYPE == "POLYHEDRALSURFACETYPE"
TRIANGLETYPE == "TRIANGLETYPE"
TINTYPE == "TINTYPE"

-----------------------------------------------------------------------------
(* Bytes, integers and doubles                                             *)

Reverse(b) == [i \in 1..Len(b) |-> b[Len(b) + 1 - i]]

(* The unsigned 32-bit value of a number below 2^31.                       *)
U32(n) == <<n \div 65536, n % 65536>>

(* Whether an unsigned 32-bit value is below 2^31, and then its number.    *)
U32Small(u) == u[1] < 32768
U32Nat(u) == u[1] * 65536 + u[2]

U32Gt(a, b) == a[1] > b[1] \/ (a[1] = b[1] /\ a[2] > b[2])

(* a * m in 32-bit unsigned arithmetic (modulo 2^32), m below 2^15.        *)
U32Mul(a, m) ==
    LET lo == a[2] * m
    IN  <<(a[1] * m + lo \div 65536) % 65536, lo % 65536>>

(* a / d, d below 2^15.                                                    *)
U32Div(a, d) == <<a[1] \div d, ((a[1] % d) * 65536 + a[2]) \div d>>

(* a & b on 16-bit numbers and on unsigned 32-bit values.                  *)
RECURSIVE BitAnd(_, _)
BitAnd(a, b) ==
    IF a = 0 \/ b = 0 THEN 0
    ELSE (a % 2) * (b % 2) + 2 * BitAnd(a \div 2, b \div 2)

U32And(a, b) == <<BitAnd(a[1], b[1]), BitAnd(a[2], b[2])>>

(* The unsigned 32-bit value whose four bytes are b, most significant      *)
(* byte first.                                                             *)
UIntOf(b) == <<b[1] * 256 + b[2], b[3] * 256 + b[4]>>

(* The bytes of an object in the host's memory, most significant first.    *)
HostOrder(s, m) == IF s.big_endian THEN m ELSE Reverse(m)

(* std::isnan on a double: exponent bits all one, mantissa not zero.       *)
isnan(d) ==
    /\ d[1] % 128 = 127
    /\ d[2] \div 16 = 15
    /\ \/ d[2] % 16 # 0
       \/ \E i \in 3..8 : d[i] # 0

-----------------------------------------------------------------------------
(* The parse state (wkb_parse_state) and the error reporter                *)
(*                                                                         *)
(* Beside the fields of the C struct the record carries the host's byte    *)
(* order (IS_BIG_ENDIAN) and observation fields the C code does not have:  *)
(*   errors     the messages handed to lwerror, in order                   *)
(*   checked    the offset up to which the last passing bounds check       *)
(*              allowed reading                                            *)
(*   bad_read   a read touched an offset at or past wkb_size, or one no    *)
(*              passing bounds check covered                               *)
(*   ndoubles   how many doubles have been read                            *)
(*   live       how many objects (geometry nodes and point arrays)         *)
(*              allocated by this parse have not been released             *)
(*   active     how many lwgeom_from_wkb_state calls are on the stack      *)

(* lwerror reports a message to the installed error reporter and returns   *)
(* to its caller: every call site goes on to set the error flag or to      *)
(* return NULL itself.                                                     *)
lwerror(s, msg) == [s EXCEPT !.errors = Append(@, msg)]

(* The byte at offset off of the memory wkb points to.  An offset past the *)
(* caller's buffer is outside the object; such a read is recorded in       *)
(* bad_read by Touch and the value it yields is not used by any claim.     *)
Mem(s, off) == IF off < Len(s.wkb) THEN s.wkb[off + 1] ELSE 0

(* The n bytes at the parse position.                                      *)
Bytes(s, n) == [i \in 1..n |-> Mem(s, s.pos + i - 1)]

(* Records a read of the n bytes at the parse position.                    *)
Touch(s, n) ==
    [s EXCEPT !.bad_read = @ \/ s.pos + n > s.wkb_size \/ s.pos + n > s.checked]

(* The bounds check with its comparison off by one.                        *)
wkb_parse_state_check_off_by_one(s, next_in) ==
    LET next == U32Nat(next_in)
    IN
    IF ~U32Small(next_in) \/ next > s.wkb_size - s.pos + 1
    THEN [lwerror(s, "WKB structure does not match expected size!")
             EXCEPT !.error = TRUE]
    ELSE [s EXCEPT !.checked = s.pos + next]

(* Check that we are not about to read off the end of the WKB array: next  *)
(* is a size_t, and pos + next is computed in the 64-bit address space,    *)
(* where it does not wrap.                                                 *)
wkb_parse_state_check(s, next_in) ==
    LET next == U32Nat(next_in)
    IN
    IF ~U32Small(next_in) \/ next > s.wkb_size - s.pos
    THEN [lwerror(s, "WKB structure does not match expected size!")
             EXCEPT !.error = TRUE]
    ELSE [s EXCEPT !.checked = s.pos + next]

(* The type table with Surface mapped to MultiSurface.                     *)
LwtypeOfSimpleType_surface(wkb_simple_type) ==
    CASE wkb_simple_type = WKB_POINT_TYPE -> POINTTYPE
      [] wkb_simple_type = WKB_LINESTRING_TYPE -> LINETYPE
      [] wkb_simple_type = WKB_POLYGON_TYPE -> POLYGONTYPE
      [] wkb_simple_type = WKB_CIRCULARSTRING_TYPE -> CIRCSTRINGTYPE
      [] wkb_simple_type = WKB_MULTIPOINT_TYPE -> MULTIPOINTTYPE
      [] wkb_simple_type = WKB_MULTILINESTRING_TYPE -> MULTILINETYPE
      [] wkb_simple_type = WKB_MULTIPOLYGON_TYPE -> MULTIPOLYGONTYPE
      [] wkb_simple_type = WKB_TRIANGLE_TYPE -> TRIANGLETYPE
      [] wkb_simple_type = WKB_GEOMETRYCOLLECTION_TYPE -> COLLECTIONTYPE
      [] wkb_simple_type = WKB_COMPOUNDCURVE_TYPE -> COMPOUNDTYPE
      [] wkb_simple_type = WKB_CURVEPOLYGON_TYPE -> CURVEPOLYTYPE
      [] wkb_simple_type = WKB_MULTICURVE_TYPE -> MULTICURVETYPE
      [] wkb_simple_type = WKB_MULTISURFACE_TYPE -> MULTISURFACETYPE
      [] wkb_simple_type = WKB_POLYHEDRALSURFACE_TYPE -> POLYHEDRALSURFACETYPE
      [] wkb_simple_type = WKB_TIN_TYPE -> TINTYPE
      [] wkb_simple_type = WKB_CURVE_TYPE -> CURVEPOLYTYPE
      [] wkb_simple_type = WKB_SURFACE_TYPE -> MULTISURFACETYPE
      [] OTHER -> NOTYPE

(* The lwtype a simple WKB type number selects; NOTYPE for the default     *)
(* branch of the switch.                                                   *)
LwtypeOfSimpleType(wkb_simple_type) ==
    CASE wkb_simple_type = WKB_POINT_TYPE -> POINTTYPE
      [] wkb_simple_type = WKB_LINESTRING_TYPE -> LINETYPE
      [] wkb_simple_type = WKB_POLYGON_TYPE -> POLYGONTYPE
      [] wkb_simple_type = WKB_CIRCULARSTRING_TYPE -> CIRCSTRINGTYPE
      [] wkb_simple_type = WKB_MULTIPOINT_TYPE -> MULTIPOINTTYPE
      [] wkb_simple_type = WKB_MULTILINESTRING_TYPE -> MULTILINETYPE
      [] wkb_simple_type = WKB_MULTIPOLYGON_TYPE -> MULTIPOLYGONTYPE
      [] wkb_simple_type = WKB_TRIANGLE_TYPE -> TRIANGLETYPE
      [] wkb_simple_type = WKB_GEOMETRYCOLLECTION_TYPE -> COLLECTIONTYPE
      [] wkb_simple_type = WKB_COMPOUNDCURVE_TYPE -> COMPOUNDTYPE
      [] wkb_simple_type = WKB_CURVEPOLYGON_TYPE -> CURVEPOLYTYPE
      [] wkb_simple_type = WKB_MULTICURVE_TYPE -> MULTICURVETYPE
      [] wkb_simple_type = WKB_MULTISURFACE_TYPE -> MULTISURFACETYPE
      [] wkb_simple_type = WKB_POLYHEDRALSURFACE_TYPE -> POLYHEDRALSURFACETYPE
      [] wkb_simple_type = WKB_TIN_TYPE -> TINTYPE
      [] wkb_simple_type = WKB_CURVE_TYPE -> CURVEPOLYTYPE
      [] wkb_simple_type = WKB_SURFACE_TYPE -> MULTICURVETYPE
      [] OTHER -> NOTYPE

(* Take in an unknown kind of wkb type number and set the type and the     *)
(* Z/M/SRID flags of the parse state from it.  On an unknown type number   *)
(* the function reports the error and leaves s.lwtype as it was.           *)
lwtype_from_wkb_state(s, wkb_type_in) ==
    LET extended == U32And(wkb_type_in, <<61440, 0>>) # U32(0)    \* 0xF0000000
        xz == extended /\ U32And(wkb_type_in, WKBZOFFSET) # U32(0)
        xm == extended /\ U32And(wkb_type_in, WKBMOFFSET) # U32(0)
        xs == extended /\ U32And(wkb_type_in, WKBSRIDFLAG) # U32(0)
        s1 == [s EXCEPT !.has_z = xz, !.has_m = xm, !.has_srid = xs]
        wkb_type == U32Nat(U32And(wkb_type_in, <<4095, 65535>>))  \* 0x0FFFFFFF
        wkb_simple_type == wkb_type % 1000
        s2 == IF wkb_type >= 3000 /\ wkb_type < 4000
                  THEN [s1 EXCEPT !.has_z = TRUE, !.has_m = TRUE]
              ELSE IF wkb_type >= 2000 /\ wkb_type < 3000
                  THEN [s1 EXCEPT !.has_m = TRUE]
              ELSE IF wkb_type >= 1000 /\ wkb_type < 2000
                  THEN [s1 EXCEPT !.has_z = TRUE]
              ELSE s1
        t == LwtypeOfSimpleType(wkb_simple_type)
    IN  IF wkb_type >= 4000
        THEN lwerror(s1, "Unknown WKB type!")
        ELSE IF t = NOTYPE
             THEN lwerror(s2, "Unknown WKB type! Full WKB type number was.")
             ELSE [s2 EXCEPT !.lwtype = t]

(* Read a byte and advance the parse state forward.                        *)
byte_from_wkb_state(s) ==
    LET c == wkb_parse_state_check(s, U32(WKB_BYTE_SIZE))
    IN  IF c.error THEN [s |-> c, v |-> 0]
        ELSE [s |-> [Touch(c, WKB_BYTE_SIZE) EXCEPT !.pos = @ + WKB_BYTE_SIZE],
              v |-> Mem(c, c.pos)]

(* Read 4-byte integer and advance the parse state forward.                *)
integer_from_wkb_state(s) ==
    LET c == wkb_parse_state_check(s, U32(WKB_INT_SIZE))
        raw == Bytes(c, WKB_INT_SIZE)
        i == IF c.swap_bytes THEN Reverse(raw) ELSE raw
    IN  IF c.error THEN [s |-> c, v |-> U32(0)]
        ELSE [s |-> [Touch(c, WKB_INT_SIZE) EXCEPT !.pos = @ + WKB_INT_SIZE],
              v |-> UIntOf(HostOrder(c, i))]

(* The double reader without its byte swap.                                *)
double_from_wkb_state_no_swap(s) ==
    LET raw == Bytes(s, WKB_DOUBLE_SIZE)
    IN  [s |-> [Touch(s, WKB_DOUBLE_SIZE)
                   EXCEPT !.pos = @ + WKB_DOUBLE_SIZE, !.ndoubles = @ + 1],
         v |-> HostOrder(s, raw)]

(* Read an 8-byte double and advance the parse state forward.  The         *)
(* function checks no bound itself.                                        *)
double_from_wkb_state(s) ==
    LET raw == Bytes(s, WKB_DOUBLE_SIZE)
        d == IF s.swap_bytes THEN Reverse(raw) ELSE raw
    IN  [s |-> [Touch(s, WKB_DOUBLE_SIZE)
                   EXCEPT !.pos = @ + WKB_DOUBLE_SIZE, !.ndoubles = @ + 1],
         v |-> HostOrder(s, d)]

-----------------------------------------------------------------------------
(* The geometry object model                                               *)
(*                                                                         *)
(* A POINTARRAY is [isnull, has_z, has_m, npoints, serialized_pointlist],  *)
(* the point list being the bytes of its doubles as they lie in the host's *)
(* memory.  A geometry is [type, srid, has_z, has_m, pa, rings, geoms]: pa *)
(* is the point array of a Point, Line, CircularString or Triangle, rings  *)
(* the point arrays of a Polygon, geoms the children of a collection or    *)
(* the rings of a CurvePolygon.  NULL and NULL_PA are the null pointers.   *)

NULL == [type |-> "NULL"]

NULL_PA ==
    [isnull |-> TRUE, has_z |-> FALSE, has_m |-> FALSE, npoints |-> 0,
     serialized_pointlist |-> <<>>]

IsCollectionType(type) ==
    type \in {MULTIPOINTTYPE, MULTILINETYPE, MULTIPOLYGONTYPE, COMPOUNDTYPE,
              MULTICURVETYPE, MULTISURFACETYPE, POLYHEDRALSURFACETYPE, TINTYPE,
              COLLECTIONTYPE}

ndims_of(has_z, has_m) == 2 + (IF has_z THEN 1 ELSE 0) + (IF has_m THEN 1 ELSE 0)

(* A point array over a given point list.                                  *)
ptarray_construct_copy_data(has_z, has_m, npoints, ptlist) ==
    [isnull |-> FALSE, has_z |-> has_z, has_m |-> has_m, npoints |-> npoints,
     serialized_pointlist |-> ptlist]

(* A point array of npoints points whose point list the caller fills.      *)
ptarray_construct(has_z, has_m, npoints) ==
    ptarray_construct_copy_data(has_z, has_m, npoints, <<>>)

(* The k-th double (from 0) of point n (from 0) of pa, as the host reads   *)
(* it from the point list.                                                 *)
getDouble(big_endian, pa, n, k) ==
    LET off == (n * ndims_of(pa.has_z, pa.has_m) + k) * WKB_DOUBLE_SIZE
        m == SubSeq(pa.serialized_pointlist, off + 1, off + WKB_DOUBLE_SIZE)
    IN  IF big_endian THEN m ELSE Reverse(m)

(* The bytes of the first k doubles of point n of pa.                      *)
PointBytes(pa, n, k) ==
    LET off == n * ndims_of(pa.has_z, pa.has_m) * WKB_DOUBLE_SIZE
    IN  SubSeq(pa.serialized_pointlist, off + 1, off + k * WKB_DOUBLE_SIZE)

(* First and last point compare equal in X and Y; a single point is        *)
(* closed, no point is not.                                                *)
ptarray_is_closed_2d(pa) ==
    IF pa.npoints <= 1 THEN pa.npoints = 1
    ELSE PointBytes(pa, 0, 2) = PointBytes(pa, pa.npoints - 1, 2)

ptarray_is_closed_3d(pa) ==
    IF pa.npoints <= 1 THEN pa.npoints = 1
    ELSE PointBytes(pa, 0, 3) = PointBytes(pa, pa.npoints - 1, 3)

(* Closed in X, Y and Z when the array has Z, in X and Y otherwise.        *)
ptarray_is_closed_z(pa) ==
    IF pa.has_z THEN ptarray_is_closed_3d(pa) ELSE ptarray_is_closed_2d(pa)

Geom(type, srid, has_z, has_m, pa, rings, geoms) ==
    [type |-> type, srid |-> srid, has_z |-> has_z, has_m |-> has_m,
     pa |-> pa, rings |-> rings, geoms |-> geoms]

lwpoint_construct_empty(srid, has_z, has_m) ==
    Geom(POINTTYPE, srid, has_z, has_m, ptarray_construct(has_z, has_m, 0), <<>>, <<>>)

lwpoint_construct(srid, pa) ==
    Geom(POINTTYPE, srid, pa.has_z, pa.has_m, pa, <<>>, <<>>)

lwline_construct_empty(srid, has_z, has_m) ==
    Geom(LINETYPE, srid, has_z, has_m, ptarray_construct(has_z, has_m, 0), <<>>, <<>>)

lwline_construct(srid, pa) ==
    Geom(LINETYPE, srid, pa.has_z, pa.has_m, pa, <<>>, <<>>)

lwcircstring_construct_empty(srid, has_z, has_m) ==
    Geom(CIRCSTRINGTYPE, srid, has_z, has_m, ptarray_construct(has_z, has_m, 0),
         <<>>, <<>>)

lwcircstring_construct(srid, pa) ==
    Geom(CIRCSTRINGTYPE, srid, pa.has_z, pa.has_m, pa, <<>>, <<>>)

lwtriangle_construct_empty(srid, has_z, has_m) ==
    Geom(TRIANGLETYPE, srid, has_z, has_m, ptarray_construct(has_z, has_m, 0),
         <<>>, <<>>)

lwtriangle_construct(srid, pa) ==
    Geom(TRIANGLETYPE, srid, pa.has_z, pa.has_m, pa, <<>>, <<>>)

lwpoly_construct_empty(srid, has_z, has_m) ==
    Geom(POLYGONTYPE, srid, has_z, has_m, NULL_PA, <<>>, <<>>)

lwcurvepoly_construct_empty(srid, has_z, has_m) ==
    Geom(CURVEPOLYTYPE, srid, has_z, has_m, NULL_PA, <<>>, <<>>)

lwcollection_construct_empty(type, srid, has_z, has_m) ==
    Geom(type, srid, has_z, has_m, NULL_PA, <<>>, <<>>)

(* Append a ring to a polygon; fails on a null polygon or ring.            *)
lwpoly_add_ring(poly, pa) ==
    IF poly.type = "NULL" \/ pa.isnull THEN NULL
    ELSE [poly EXCEPT !.rings = Append(@, pa)]

(* The kinds a collection kind may hold.                                   *)
lwcollection_allows_subtype(collectiontype, subtype) ==
    \/ collectiontype = COLLECTIONTYPE
    \/ collectiontype = MULTIPOINTTYPE /\ subtype = POINTTYPE
    \/ collectiontype = MULTILINETYPE /\ subtype = LINETYPE
    \/ collectiontype = MULTIPOLYGONTYPE /\ subtype = POLYGONTYPE
    \/ collectiontype = COMPOUNDTYPE /\ subtype \in {LINETYPE, CIRCSTRINGTYPE}
    \/ collectiontype = CURVEPOLYTYPE
          /\ subtype \in {CIRCSTRINGTYPE, LINETYPE, COMPOUNDTYPE}
    \/ collectiontype = MULTICURVETYPE
          /\ subtype \in {CIRCSTRINGTYPE, LINETYPE, COMPOUNDTYPE}
    \/ collectiontype = MULTISURFACETYPE /\ subtype \in {POLYGONTYPE, CURVEPOLYTYPE}
    \/ collectiontype = POLYHEDRALSURFACETYPE /\ subtype = POLYGONTYPE
    \/ collectiontype = TINTYPE /\ subtype = TRIANGLETYPE

(* Append a child to a collection; NULL (failure) on a null child or a     *)
(* child of a kind the collection may not hold.                            *)
lwcollection_add_lwgeom(col, geom) ==
    IF col.type = "NULL" \/ geom.type = "NULL" THEN NULL
    ELSE IF ~lwcollection_allows_subtype(col.type, geom.type) THEN NULL
    ELSE [col EXCEPT !.geoms = Append(@, geom)]

(* Append a ring to a curve polygon; NULL (LW_FAILURE) on a null ring or a *)
(* ring that is no Line, CircularString or CompoundCurve.                  *)
lwcurvepoly_add_ring(poly, ring) ==
    IF poly.type = "NULL" \/ ring.type = "NULL" THEN NULL
    ELSE IF ring.type \notin {LINETYPE, CIRCSTRINGTYPE, COMPOUNDTYPE} THEN NULL
    ELSE [poly EXCEPT !.geoms = Append(@, ring)]

(* The number of objects a geometry tree is made of: every node, and every *)
(* point array (a Point, Line, CircularString or Triangle owns one, a      *)
(* Polygon one per ring).                                                  *)
RECURSIVE Objects(_)
SeqSum(f) == LET RECURSIVE Sum(_)
                 Sum(i) == IF i = 0 THEN 0 ELSE f[i] + Sum(i - 1)
             IN  Sum(Len(f))

Objects(g) ==
    IF g.type = "NULL" THEN 0
    ELSE IF g.type \in {POINTTYPE, LINETYPE, CIRCSTRINGTYPE, TRIANGLETYPE} THEN 2
    ELSE IF g.type = POLYGONTYPE THEN 1 + Len(g.rings)
    ELSE 1 + SeqSum([i \in 1..Len(g.geoms) |-> Objects(g.geoms[i])])

(* The number of objects lwgeom_free(g) releases.  The switch has no case  *)
(* for MULTIPOLYGONTYPE, POLYHEDRALSURFACETYPE and TINTYPE: for these the  *)
(* default branch returns and nothing is released.  lwcollection_free      *)
(* releases each child through lwgeom_free, then the node.                 *)
RECURSIVE lwgeom_free(_)
lwcollection_free(col) ==
    1 + SeqSum([i \in 1..Len(col.geoms) |-> lwgeom_free(col.geoms[i])])

lwgeom_free(lwgeom) ==
    IF lwgeom.type = "NULL" THEN 0
    ELSE IF lwgeom.type \in {POINTTYPE, LINETYPE, POLYGONTYPE, CIRCSTRINGTYPE,
                             TRIANGLETYPE, MULTIPOINTTYPE, MULTILINETYPE}
         THEN Objects(lwgeom)
    ELSE IF lwgeom.type \in {CURVEPOLYTYPE, COMPOUNDTYPE, MULTICURVETYPE,
                             MULTISURFACETYPE, COLLECTIONTYPE}
         THEN lwcollection_free(lwgeom)
    ELSE 0

(* Allocation and release as seen in the parse state's count of live       *)
(* objects.                                                                *)
Alloc(s, n) == [s EXCEPT !.live = @ + n]
Release(s, n) == [s EXCEPT !.live = @ - n]

-----------------------------------------------------------------------------
(* The readers                                                             *)

(* Clamp an SRID read from the wire (an unsigned 32-bit value converted to *)
(* int32_t) to the valid range.                                            *)
clamp_srid(u) ==
    LET srid == IF ~U32Small(u) THEN -1 ELSE U32Nat(u)     \* negative as int32_t
    IN  IF srid <= 0 THEN SRID_UNKNOWN
        ELSE IF srid > SRID_MAXIMUM
             THEN SRID_USER_MAXIMUM + 1
                     + (srid % (SRID_MAXIMUM - SRID_USER_MAXIMUM - 1))
             ELSE srid

(* The loop "for (i = 0; i < n; i++) dlist[i] = double_from_wkb_state(s)": *)
(* v is the point list written, each double stored in host order.          *)
RECURSIVE ReadDoubles(_, _)
ReadDoubles(s, n) ==
    IF n = 0 THEN [s |-> s, v |-> <<>>]
    ELSE LET d == double_from_wkb_state(s)
             rest == ReadDoubles(d.s, n - 1)
         IN  [s |-> rest.s, v |-> HostOrder(s, d.v) \o rest.v]

(* The largest point count ptarray_from_wkb_state accepts.                 *)
maxpoints == U32Div(U32Div(UINT_MAX, WKB_DOUBLE_SIZE), 4)

(* npoints * ndims * WKB_DOUBLE_SIZE in 32-bit unsigned arithmetic.        *)
pa_size_of(npoints, ndims) == U32Mul(U32Mul(npoints, ndims), WKB_DOUBLE_SIZE)

(* Read the coordinate block of npoints points at the parse position: one  *)
(* copy of pa_size bytes in native byte order, npoints * ndims doubles one *)
(* by one otherwise.  The bounds check has been passed, so both numbers    *)
(* are below 2^31.                                                         *)
ReadPointBlock(s, npoints_in) ==
    LET ndims == ndims_of(s.has_z, s.has_m)
        npoints == U32Nat(npoints_in)
        pa_size == U32Nat(pa_size_of(npoints_in, ndims))
        ndbl == U32Nat(U32Mul(npoints_in, ndims))
        dl == ReadDoubles(s, ndbl)
    IN  IF ~s.swap_bytes
        THEN [s |-> [Alloc(Touch(s, pa_size), 1)
                        EXCEPT !.pos = @ + pa_size, !.ndoubles = @ + ndbl],
              v |-> ptarray_construct_copy_data(s.has_z, s.has_m, npoints,
                                                Bytes(s, pa_size))]
        ELSE [s |-> Alloc(dl.s, 1),
              v |-> [ptarray_construct(s.has_z, s.has_m, npoints)
                        EXCEPT !.serialized_pointlist = dl.v]]

(* Read a dynamically sized point array and advance the parse state        *)
(* forward.  First read the number of points, then read the points.        *)
ptarray_from_wkb_state(s) ==
    LET r == integer_from_wkb_state(s)
        npoints == r.v
        s1 == r.s
        pa_size == pa_size_of(npoints, ndims_of(s1.has_z, s1.has_m))
        c == wkb_parse_state_check(s1, pa_size)
    IN  IF s1.error THEN [s |-> s1, v |-> NULL_PA]
        ELSE IF U32Gt(npoints, maxpoints)
             THEN [s |-> [s1 EXCEPT !.error = TRUE], v |-> NULL_PA]
        ELSE IF npoints = U32(0)
             THEN [s |-> Alloc(s1, 1),
                   v |-> ptarray_construct(s1.has_z, s1.has_m, 0)]
        ELSE IF c.error THEN [s |-> c, v |-> NULL_PA]
        ELSE ReadPointBlock(c, npoints)

(* The point reader taking a point for empty when either of X and Y is     *)
(* NaN.                                                                    *)
lwpoint_from_wkb_state_either_nan(s) ==
    LET ndims == ndims_of(s.has_z, s.has_m)
        pa_size == U32(ndims * WKB_DOUBLE_SIZE)
        c == wkb_parse_state_check(s, pa_size)
        r == ReadPointBlock(c, U32(1))
        pa == r.v
        x == getDouble(s.big_endian, pa, 0, 0)
        y == getDouble(s.big_endian, pa, 0, 1)
    IN  IF c.error THEN [s |-> c, v |-> NULL]
        ELSE IF isnan(x) \/ isnan(y)
             THEN [s |-> Alloc(Release(r.s, 1), 2),
                   v |-> lwpoint_construct_empty(c.srid, c.has_z, c.has_m)]
             ELSE [s |-> Alloc(r.s, 1), v |-> lwpoint_construct(c.srid, pa)]

(* Read a WKB point: one coordinate tuple.  POINT(NaN NaN) becomes POINT   *)
(* EMPTY.                                                                  *)
lwpoint_from_wkb_state(s) ==
    LET ndims == ndims_of(s.has_z, s.has_m)
        pa_size == U32(ndims * WKB_DOUBLE_SIZE)
        c == wkb_parse_state_check(s, pa_size)
        r == ReadPointBlock(c, U32(1))
        pa == r.v
        x == getDouble(s.big_endian, pa, 0, 0)
        y == getDouble(s.big_endian, pa, 0, 1)
    IN  IF c.error THEN [s |-> c, v |-> NULL]
        ELSE IF isnan(x) /\ isnan(y)
             THEN [s |-> Alloc(Release(r.s, 1), 2),
                   v |-> lwpoint_construct_empty(c.srid, c.has_z, c.has_m)]
             ELSE [s |-> Alloc(r.s, 1), v |-> lwpoint_construct(c.srid, pa)]

(* Read a WKB linestring.  With the MINPOINTS check a line of one point is *)
(* rejected; its point array is not released on that path.                 *)
lwline_from_wkb_state(s) ==
    LET r == ptarray_from_wkb_state(s)
        pa == r.v
        s1 == r.s
    IN  IF s1.error THEN [s |-> s1, v |-> NULL]
        ELSE IF pa.isnull \/ pa.npoints = 0
             THEN [s |-> Alloc(IF pa.isnull THEN s1 ELSE Release(s1, 1), 2),
                   v |-> lwline_construct_empty(s1.srid, s1.has_z, s1.has_m)]
        ELSE IF LW_PARSER_CHECK_MINPOINTS \in s1.check /\ pa.npoints < 2
             THEN [s |-> lwerror(s1, "must have at least two points"),
                   v |-> NULL]
        ELSE [s |-> Alloc(s1, 1), v |-> lwline_construct(s1.srid, pa)]

(* lwcircstring_from_wkb_state with the two-point minimum of a Line.       *)
lwcircstring_from_wkb_state_two_points(s) ==
    LET r == ptarray_from_wkb_state(s)
        pa == r.v
        s1 == r.s
    IN  IF s1.error THEN [s |-> s1, v |-> NULL]
        ELSE IF pa.isnull \/ pa.npoints = 0
             THEN [s |-> Alloc(IF pa.isnull THEN s1 ELSE Release(s1, 1), 2),
                   v |-> lwcircstring_construct_empty(s1.srid, s1.has_z, s1.has_m)]
        ELSE IF LW_PARSER_CHECK_MINPOINTS \in s1.check /\ pa.npoints < 2
             THEN [s |-> s1, v |-> NULL]
        ELSE IF LW_PARSER_CHECK_ODD \in s1.check /\ pa.npoints % 2 = 0
             THEN [s |-> s1, v |-> NULL]
        ELSE [s |-> Alloc(s1, 1), v |-> lwcircstring_construct(s1.srid, pa)]

(* Read a WKB circularstring.  The MINPOINTS and ODD rejections return     *)
(* NULL without a message and without releasing the point array.           *)
lwcircstring_from_wkb_state(s) ==
    LET r == ptarray_from_wkb_state(s)
        pa == r.v
        s1 == r.s
    IN  IF s1.error THEN [s |-> s1, v |-> NULL]
        ELSE IF pa.isnull \/ pa.npoints = 0
             THEN [s |-> Alloc(IF pa.isnull THEN s1 ELSE Release(s1, 1), 2),
                   v |-> lwcircstring_construct_empty(s1.srid, s1.has_z, s1.has_m)]
        ELSE IF LW_PARSER_CHECK_MINPOINTS \in s1.check /\ pa.npoints < 3
             THEN [s |-> s1, v |-> NULL]
        ELSE IF LW_PARSER_CHECK_ODD \in s1.check /\ pa.npoints % 2 = 0
             THEN [s |-> s1, v |-> NULL]
        ELSE [s |-> Alloc(s1, 1), v |-> lwcircstring_construct(s1.srid, pa)]

(* The ring loop of lwpoly_from_wkb_state, from ring i on.                 *)
RECURSIVE lwpoly_rings(_, _, _, _)
lwpoly_rings(s, poly, i, nrings) ==
    IF ~U32Gt(nrings, U32(i)) THEN [s |-> s, v |-> poly]
    ELSE LET r == ptarray_from_wkb_state(s)
             pa == r.v
             s1 == r.s
         IN  IF pa.isnull
             THEN [s |-> Release(s1, Objects(poly)), v |-> NULL]
             ELSE IF LW_PARSER_CHECK_MINPOINTS \in s1.check /\ pa.npoints < 4
                  THEN [s |-> lwerror(Release(s1, Objects(poly) + 1),
                                      "must have at least four points in each ring"),
                        v |-> NULL]
             ELSE IF LW_PARSER_CHECK_CLOSURE \in s1.check /\ ~ptarray_is_closed_2d(pa)
                  THEN [s |-> lwerror(Release(s1, Objects(poly) + 1),
                                      "must have closed rings"),
                        v |-> NULL]
             ELSE IF lwpoly_add_ring(poly, pa).type = "NULL"
                  THEN [s |-> lwerror(Release(s1, Objects(poly) + 1),
                                      "Unable to add ring to polygon"),
                        v |-> NULL]
             ELSE lwpoly_rings(s1, lwpoly_add_ring(poly, pa), i + 1, nrings)

(* Read a WKB polygon: the number of rings, then each ring.                *)
lwpoly_from_wkb_state(s) ==
    LET r == integer_from_wkb_state(s)
        nrings == r.v
        s1 == Alloc(r.s, 1)
        poly == lwpoly_construct_empty(s1.srid, s1.has_z, s1.has_m)
    IN  IF r.s.error THEN [s |-> r.s, v |-> NULL]
        ELSE IF nrings = U32(0) THEN [s |-> s1, v |-> poly]
        ELSE lwpoly_rings(s1, poly, 0, nrings)

(* lwtriangle_from_wkb_state reading the first ring whatever the ring     *)
(* count.                                                                  *)
lwtriangle_from_wkb_state_first_ring(s) ==
    LET r == integer_from_wkb_state(s)
        nrings == r.v
        s1 == r.s
        p == ptarray_from_wkb_state(s1)
        pa == p.v
        s2 == p.s
    IN  IF s1.error THEN [s |-> s1, v |-> NULL]
        ELSE IF nrings = U32(0)
             THEN [s |-> Alloc(s1, 2),
                   v |-> lwtriangle_construct_empty(s1.srid, s1.has_z, s1.has_m)]
        ELSE IF FALSE
             THEN [s |-> lwerror(s1, "Triangle has wrong number of rings"),
                   v |-> NULL]
        ELSE IF pa.isnull
             THEN [s |-> Alloc(s2, 2),
                   v |-> lwtriangle_construct_empty(s2.srid, s2.has_z, s2.has_m)]
        ELSE IF LW_PARSER_CHECK_MINPOINTS \in s2.check /\ pa.npoints < 4
             THEN [s |-> lwerror(Release(s2, 1), "must have at least four points"),
                   v |-> NULL]
        ELSE IF LW_PARSER_CHECK_ZCLOSURE \in s2.check /\ ~ptarray_is_closed_z(pa)
             THEN [s |-> lwerror(Release(s2, 1), "must have closed rings"),
                   v |-> NULL]
        ELSE [s |-> Alloc(s2, 1), v |-> lwtriangle_construct(s2.srid, pa)]

(* Read a WKB triangle.  A null point array, whatever made it null, gives  *)
(* the empty triangle.                                                     *)
lwtriangle_from_wkb_state(s) ==
    LET r == integer_from_wkb_state(s)
        nrings == r.v
        s1 == r.s
        p == ptarray_from_wkb_state(s1)
        pa == p.v
        s2 == p.s
    IN  IF s1.error THEN [s |-> s1, v |-> NULL]
        ELSE IF nrings = U32(0)
             THEN [s |-> Alloc(s1, 2),
                   v |-> lwtriangle_construct_empty(s1.srid, s1.has_z, s1.has_m)]
        ELSE IF nrings # U32(1)
             THEN [s |-> lwerror(s1, "Triangle has wrong number of rings"),
                   v |-> NULL]
        ELSE IF pa.isnull
             THEN [s |-> Alloc(s2, 2),
                   v |-> lwtriangle_construct_empty(s2.srid, s2.has_z, s2.has_m)]
        ELSE IF LW_PARSER_CHECK_MINPOINTS \in s2.check /\ pa.npoints < 4
             THEN [s |-> lwerror(Release(s2, 1), "must have at least four points"),
                   v |-> NULL]
        ELSE IF LW_PARSER_CHECK_ZCLOSURE \in s2.check /\ ~ptarray_is_closed_z(pa)
             THEN [s |-> lwerror(Release(s2, 1), "must have closed rings"),
                   v |-> NULL]
        ELSE [s |-> Alloc(s2, 1), v |-> lwtriangle_construct(s2.srid, pa)]

-----------------------------------------------------------------------------
(* The recursive readers                                                   *)
(*                                                                         *)
(* lwgeom_from_wkb_state calls itself through the child loops of           *)
(* lwcollection_from_wkb_state and lwcurvepoly_from_wkb_state.  The model  *)
(* keeps the C call stack explicitly: one frame per loop that is waiting   *)
(* for a child, [fn, geom, i, ngeoms], fn naming the function the loop     *)
(* belongs to, geom the collection built so far.  Each of the two          *)
(* functions is split where it calls lwgeom_from_wkb_state: the part       *)
(* before the loop, and the rest of one loop iteration.                    *)

(* lwcurvepoly_from_wkb_state up to its loop.  loop says whether the loop  *)
(* is entered; otherwise v is what the function returns.  The depth        *)
(* counter is not touched.                                                 *)
lwcurvepoly_from_wkb_state(s) ==
    LET r == integer_from_wkb_state(s)
        ngeoms == r.v
        s1 == Alloc(r.s, 1)
        cp == lwcurvepoly_construct_empty(s1.srid, s1.has_z, s1.has_m)
    IN  IF r.s.error THEN [s |-> r.s, v |-> NULL, loop |-> FALSE, ngeoms |-> ngeoms]
        ELSE [s |-> s1, v |-> cp, loop |-> ngeoms # U32(0), ngeoms |-> ngeoms]

(* The rest of a loop iteration of lwcurvepoly_from_wkb_state, geom being  *)
(* what lwgeom_from_wkb_state returned: the ring has been parsed in full   *)
(* before lwcurvepoly_add_ring looks at its kind.                          *)
lwcurvepoly_from_wkb_state_add(s, cp, geom) ==
    LET added == lwcurvepoly_add_ring(cp, geom)
    IN  IF added.type = "NULL"
        THEN [s |-> lwerror(Release(s, lwgeom_free(geom) + lwgeom_free(cp)),
                            "Unable to add geometry to curvepoly"),
              v |-> NULL]
        ELSE [s |-> s, v |-> added]

(* lwcollection_from_wkb_state failing only when the depth is past the     *)
(* maximum.                                                                *)
lwcollection_from_wkb_state_past_max(s) ==
    LET r == integer_from_wkb_state(s)
        ngeoms == r.v
        s1 == Alloc(r.s, 1)
        col == lwcollection_construct_empty(s1.lwtype, s1.srid, s1.has_z, s1.has_m)
        s2 == IF s1.lwtype = POLYHEDRALSURFACETYPE
              THEN [s1 EXCEPT !.check = @ \cup {LW_PARSER_CHECK_ZCLOSURE}]
              ELSE s1
        s3 == [s2 EXCEPT !.depth = (@ + 1) % 256]
    IN  IF r.s.error THEN [s |-> r.s, v |-> NULL, loop |-> FALSE, ngeoms |-> ngeoms]
        ELSE IF ngeoms = U32(0)
             THEN [s |-> s1, v |-> col, loop |-> FALSE, ngeoms |-> ngeoms]
        ELSE IF s3.depth > LW_PARSER_MAX_DEPTH
             THEN [s |-> lwerror(Release(s3, 1),
                                 "Geometry has too many chained collections"),
                   v |-> NULL, loop |-> FALSE, ngeoms |-> ngeoms]
        ELSE [s |-> s3, v |-> col, loop |-> TRUE, ngeoms |-> ngeoms]

(* lwcollection_from_wkb_state up to its loop, for any of the nine         *)
(* collection kinds.                                                       *)
lwcollection_from_wkb_state(s) ==
    LET r == integer_from_wkb_state(s)
        ngeoms == r.v
        s1 == Alloc(r.s, 1)
        col == lwcollection_construct_empty(s1.lwtype, s1.srid, s1.has_z, s1.has_m)
        s2 == IF s1.lwtype = POLYHEDRALSURFACETYPE
              THEN [s1 EXCEPT !.check = @ \cup {LW_PARSER_CHECK_ZCLOSURE}]
              ELSE s1
        s3 == [s2 EXCEPT !.depth = (@ + 1) % 256]
    IN  IF r.s.error THEN [s |-> r.s, v |-> NULL, loop |-> FALSE, ngeoms |-> ngeoms]
        ELSE IF ngeoms = U32(0)
             THEN [s |-> s1, v |-> col, loop |-> FALSE, ngeoms |-> ngeoms]
        ELSE IF s3.depth >= LW_PARSER_MAX_DEPTH
             THEN [s |-> lwerror(Release(s3, 1),
                                 "Geometry has too many chained collections"),
                   v |-> NULL, loop |-> FALSE, ngeoms |-> ngeoms]
        ELSE [s |-> s3, v |-> col, loop |-> TRUE, ngeoms |-> ngeoms]

(* The rest of a loop iteration of lwcollection_from_wkb_state.            *)
lwcollection_from_wkb_state_add(s, col, geom) ==
    LET added == lwcollection_add_lwgeom(col, geom)
    IN  IF added.type = "NULL"
        THEN [s |-> lwerror(Release(s, lwgeom_free(geom) + lwgeom_free(col)),
                            "Unable to add geometry to collection"),
              v |-> NULL]
        ELSE [s |-> s, v |-> added]

lwcollection_from_wkb_state_end_restoring(s) ==
    [s EXCEPT !.depth = (@ + 255) % 256, !.srid = SRID_UNKNOWN]

(* What lwcollection_from_wkb_state does after its loop.                   *)
lwcollection_from_wkb_state_end(s) == [s EXCEPT !.depth = (@ + 255) % 256]

lwgeom_from_wkb_state_header_root_order(s) ==
    LET b == byte_from_wkb_state(s)
        wkb_little_endian == b.v
        s1 == IF s.pos # 0 THEN b.s
              ELSE [b.s EXCEPT !.swap_bytes =
                      \/ (b.s.big_endian /\ wkb_little_endian # 0)
                      \/ (~b.s.big_endian /\ wkb_little_endian = 0)]
        t == integer_from_wkb_state(s1)
        s2 == lwtype_from_wkb_state(t.s, t.v)
        i == integer_from_wkb_state(s2)
        s3 == IF s2.has_srid THEN [i.s EXCEPT !.srid = clamp_srid(i.v)] ELSE s2
    IN  IF b.s.error THEN [s |-> b.s, ok |-> FALSE]
        ELSE IF wkb_little_endian # 1 /\ wkb_little_endian # 0
             THEN [s |-> lwerror(b.s, "Invalid endian flag value encountered."),
                   ok |-> FALSE]
        ELSE IF t.s.error THEN [s |-> t.s, ok |-> FALSE]
        ELSE IF s3.error THEN [s |-> s3, ok |-> FALSE]
        ELSE [s |-> s3, ok |-> TRUE]

(* lwgeom_from_wkb_state up to its switch: the endian byte, the type       *)
(* number and the optional SRID.  ok says whether the switch is reached.   *)
lwgeom_from_wkb_state_header(s) ==
    LET b == byte_from_wkb_state(s)
        wkb_little_endian == b.v
        s1 == [b.s EXCEPT !.swap_bytes =
                  \/ (b.s.big_endian /\ wkb_little_endian # 0)
                  \/ (~b.s.big_endian /\ wkb_little_endian = 0)]
        t == integer_from_wkb_state(s1)
        s2 == lwtype_from_wkb_state(t.s, t.v)
        i == integer_from_wkb_state(s2)
        s3 == IF s2.has_srid THEN [i.s EXCEPT !.srid = clamp_srid(i.v)] ELSE s2
    IN  IF b.s.error THEN [s |-> b.s, ok |-> FALSE]
        ELSE IF wkb_little_endian # 1 /\ wkb_little_endian # 0
             THEN [s |-> lwerror(b.s, "Invalid endian flag value encountered."),
                   ok |-> FALSE]
        ELSE IF t.s.error THEN [s |-> t.s, ok |-> FALSE]
        ELSE IF s3.error THEN [s |-> s3, ok |-> FALSE]
        ELSE [s |-> s3, ok |-> TRUE]

(* The switch of lwgeom_from_wkb_state for the kinds that do not recurse,  *)
(* and its default branch.                                                 *)
lwgeom_from_wkb_state_leaf(s) ==
    CASE s.lwtype = POINTTYPE -> lwpoint_from_wkb_state(s)
      [] s.lwtype = LINETYPE -> lwline_from_wkb_state(s)
      [] s.lwtype = POLYGONTYPE -> lwpoly_from_wkb_state(s)
      [] s.lwtype = CIRCSTRINGTYPE -> lwcircstring_from_wkb_state(s)
      [] s.lwtype = TRIANGLETYPE -> lwtriangle_from_wkb_state(s)
      [] OTHER -> [s |-> lwerror(s, "Unsupported geometry type"), v |-> NULL]

(* A null wkb pointer.                                                     *)
NULL_WKB == <<-1>>

(* The parse state lwgeom_from_wkb sets up.                                *)
InitialState(wkb, wkb_size, check, big_endian) ==
    [wkb |-> wkb, wkb_size |-> wkb_size, swap_bytes |-> FALSE, check |-> check,
     lwtype |-> NOTYPE, srid |-> SRID_UNKNOWN, has_z |-> FALSE, has_m |-> FALSE,
     has_srid |-> FALSE, error |-> FALSE, pos |-> 0, depth |-> 1,
     big_endian |-> big_endian, errors |-> <<>>, checked |-> 0,
     bad_read |-> FALSE, ndoubles |-> 0, live |-> 0, active |-> 0]

-----------------------------------------------------------------------------
(* The program: calls of lwgeom_from_wkb                                   *)

(* A child loop waiting for lwgeom_from_wkb_state to return.               *)
Frame(fn, geom, ngeoms) == [fn |-> fn, geom |-> geom, i |-> 0, ngeoms |-> ngeoms]

Top == stack[Len(stack)]
Pop == SubSeq(stack, 1, Len(stack) - 1)

(* lwgeom_from_wkb_state has been entered, and has left.                   *)
Enter(st) == [st EXCEPT !.active = @ + 1]
Leave(st) == [st EXCEPT !.active = @ - 1]

(* The arguments of the call the program makes next.                       *)
NextCall == test.calls[Len(results) + 1]

(* lwgeom_from_wkb: initialize the state, check the input, and hand the    *)
(* state to lwgeom_from_wkb_state.  A null or empty buffer returns NULL at *)
(* once.                                                                   *)
Begin(c) ==
    LET st == InitialState(c.wkb, c.wkb_size, c.check, c.big_endian)
    IN  /\ state' = st
        /\ stack' = <<>>
        /\ val' = NULL
        /\ IF c.wkb = NULL_WKB \/ c.wkb_size = 0
           THEN /\ pc' = "idle"
                /\ results' = Append(results, [v |-> NULL, s |-> st])
           ELSE /\ pc' = "lwgeom_from_wkb_state"
                /\ UNCHANGED results
        /\ UNCHANGED <<hex, api>>
-----------------------------------------------------------------------------
(* The WKB wire format, used to build the buffers the decoder is run on    *)

(* A 4-byte unsigned integer in the given byte order, from its unsigned   *)
(* 32-bit value and from a number below 2^31.                              *)
EncU32(u, le) ==
    LET be == <<u[1] \div 256, u[1] % 256, u[2] \div 256, u[2] % 256>>
    IN  IF le THEN Reverse(be) ELSE be

EncInt(v, le) == EncU32(U32(v), le)

(* An 8-byte double in the given byte order.                               *)
EncDouble(d, le) == IF le THEN Reverse(d) ELSE d

(* The endian byte and the type code of a geometry.                        *)
Header(le, code) == <<IF le THEN 1 ELSE 0>> \o EncInt(code, le)

RECURSIVE Concat(_)
Concat(ss) == IF Len(ss) = 0 THEN <<>> ELSE Head(ss) \o Concat(Tail(ss))

(* A coordinate tuple, a point array with its count.                       *)
EncPoint(p, le) == Concat([k \in 1..Len(p) |-> EncDouble(p[k], le)])

EncPointArray(pts, le) ==
    EncInt(Len(pts), le) \o Concat([k \in 1..Len(pts) |-> EncPoint(pts[k], le)])

(* n nested single-child collections of the given type code around a leaf: *)
(* n times the nine bytes of a header and a count of one, then the leaf.   *)
Chain(n, code, le, leaf) ==
    LET link == Header(le, code) \o EncInt(1, le)
    IN  [i \in 1..(9 * n + Len(leaf)) |->
            IF i <= 9 * n THEN link[((i - 1) % 9) + 1] ELSE leaf[i - 9 * n]]

(* The type word of an extended (EWKB) header: the type code with the Z, M *)
(* and SRID flag bits, followed by the SRID when flagged.                  *)
EHeader(le, code, z, m, srid) ==
    <<IF le THEN 1 ELSE 0>>
    \o EncU32(<<(IF z THEN WKBZOFFSET[1] ELSE 0) + (IF m THEN WKBMOFFSET[1] ELSE 0)
                  + (IF srid >= 0 THEN WKBSRIDFLAG[1] ELSE 0), code>>, le)
    \o (IF srid >= 0 THEN EncInt(srid, le) ELSE <<>>)

(* A geometry made of one point array, of rings, of children.              *)
WLine(le, code, pts) == Header(le, code) \o EncPointArray(pts, le)

WPoly(le, code, rings) ==
    Header(le, code) \o EncInt(Len(rings), le)
    \o Concat([k \in 1..Len(rings) |-> EncPointArray(rings[k], le)])

WColl(le, code, children) ==
    Header(le, code) \o EncInt(Len(children), le) \o Concat(children)

(* n zero bytes.                                                           *)
Zeros(n) == [i \in 1..n |-> 0]

-----------------------------------------------------------------------------
(* The buffers the decoder is run on                                       *)

(* The doubles 0.0, 1.0, 2.0, +infinity, the quiet NaN and a negative NaN  *)
(* with a payload in its last byte.                                        *)
D0 == <<0, 0, 0, 0, 0, 0, 0, 0>>
D1 == <<63, 240, 0, 0, 0, 0, 0, 0>>
D2 == <<64, 0, 0, 0, 0, 0, 0, 0>>
DInf == <<127, 240, 0, 0, 0, 0, 0, 0>>
DNaN == <<127, 248, 0, 0, 0, 0, 0, 0>>
DNaN2 == <<255, 240, 0, 0, 0, 0, 0, 1>>

(* A closed ring of four points in two and in three dimensions, and an     *)
(* arc of three.                                                           *)
Ring2 == <<<<D0, D0>>, <<D1, D0>>, <<D1, D2>>, <<D0, D0>>>>
Ring3 == <<<<D0, D0, D2>>, <<D1, D0, D2>>, <<D1, D2, D0>>, <<D0, D0, D2>>>>
Arc2 == <<<<D0, D0>>, <<D1, D2>>, <<D2, D0>>>>

(* Valid geometries of every kind, encoded in the given byte order.        *)
Samples(le) ==
    LET pt == Header(le, WKB_POINT_TYPE) \o EncPoint(<<D1, D2>>, le)
        ln == WLine(le, WKB_LINESTRING_TYPE, <<<<D0, D1>>, <<D2, D1>>>>)
        cs == WLine(le, WKB_CIRCULARSTRING_TYPE, Arc2)
        pg == WPoly(le, WKB_POLYGON_TYPE, <<Ring2>>)
        pgz == WPoly(le, 1000 + WKB_POLYGON_TYPE, <<Ring3>>)
        tr == WPoly(le, WKB_TRIANGLE_TYPE, <<Ring2>>)
        cp == WColl(le, WKB_CURVEPOLYGON_TYPE, <<WLine(le, WKB_LINESTRING_TYPE, Ring2)>>)
    IN  << pt,
           EHeader(le, WKB_POINT_TYPE, TRUE, FALSE, 4326) \o EncPoint(<<D1, D2, D0>>, le),
           ln,
           WLine(le, 3000 + WKB_LINESTRING_TYPE, <<<<D0, D1, D2, D0>>, <<D2, D1, D0, D1>>>>),
           pg,
           tr,
           cs,
           WColl(le, WKB_MULTIPOINT_TYPE, <<pt, pt>>),
           WColl(le, WKB_MULTILINESTRING_TYPE, <<ln, ln>>),
           WColl(le, WKB_MULTIPOLYGON_TYPE, <<pg, pg>>),
           WColl(le, WKB_GEOMETRYCOLLECTION_TYPE, <<pt, ln>>),
           WColl(le, WKB_GEOMETRYCOLLECTION_TYPE, <<pt, tr>>),
           WColl(le, WKB_COMPOUNDCURVE_TYPE, <<ln, cs>>),
           WColl(le, WKB_CURVEPOLYGON_TYPE, <<WLine(le, WKB_LINESTRING_TYPE, Ring2), cs>>),
           WColl(le, WKB_MULTICURVE_TYPE, <<ln, cs>>),
           WColl(le, WKB_MULTISURFACE_TYPE, <<pg, cp>>),
           WColl(le, 1000 + WKB_POLYHEDRALSURFACE_TYPE, <<pgz, pgz>>),
           WColl(le, WKB_TIN_TYPE, <<tr, tr>>),
           WLine(le, WKB_LINESTRING_TYPE, <<>>),
           WColl(le, WKB_GEOMETRYCOLLECTION_TYPE, <<>>),
           WColl(le, WKB_GEOMETRYCOLLECTION_TYPE,
                 <<WColl(le, WKB_GEOMETRYCOLLECTION_TYPE, <<pt>>), pt>>),
           Header(le, WKB_POINT_TYPE) \o EncPoint(<<DNaN, DNaN>>, le) >>

SamplesLE == Samples(TRUE)
SamplesBE == Samples(FALSE)
SampleOf(le, i) == IF le THEN SamplesLE[i] ELSE SamplesBE[i]
NSamples == Len(SamplesLE)

(* The arguments of one call, and a test: the calls the program makes and  *)
(* what the buffers were built from.                                       *)
Call(wkb, wkb_size, check, big_endian) ==
    [wkb |-> wkb, wkb_size |-> wkb_size, check |-> check, big_endian |-> big_endian]

Test(family, kind, n, le, data, calls) ==
    [family |-> family, kind |-> kind, n |-> n, le |-> le, data |-> data,
     calls |-> calls]

Checks == {LW_PARSER_CHECK_NONE, LW_PARSER_CHECK_ALL}

(* Each sample cut to its first k bytes, declared as k bytes long.         *)
TruncationTests ==
    UNION { { Test("truncation", i, k, le, <<>>,
                   <<Call(SubSeq(SampleOf(le, i), 1, k), k, LW_PARSER_CHECK_ALL, h)>>) :
                k \in 0..(Len(SampleOf(le, i)) - 1) } :
            i \in 1..NSamples, le \in BOOLEAN, h \in BOOLEAN }

(* A whole buffer, decoded once with its true length.                      *)
Whole(wkb, check, h) == <<Call(wkb, Len(wkb), check, h)>>

(* The largest type code of the sweep, and the number of zero bytes that   *)
(* follow a swept header: enough for an empty geometry of any kind or a    *)
(* point of four zero coordinates.                                         *)
MaxTypeCode == 4100
PadLen == 32

(* Every type code up to MaxTypeCode as the root header.                   *)
TypeTests ==
    { Test("type", t, 0, le, <<>>,
           Whole(Header(le, t) \o Zeros(PadLen), LW_PARSER_CHECK_NONE, FALSE)) :
        t \in 0..MaxTypeCode, le \in BOOLEAN }

(* The deepest chain of nested single-child collections that is tried, and *)
(* how many depths below it are tried as well.                             *)
MaxChain == 203
ChainSpan == 7
ChainLevels == {1, 2} \cup ((MaxChain - ChainSpan)..MaxChain)

(* n nested single-child GeometryCollections around a Point, and n nested  *)
(* single-ring CurvePolygons around a Line.                                *)
ChainTests ==
    { Test("chain", code, n, TRUE, <<>>,
           Whole(Chain(n, code, TRUE,
                       IF code = WKB_CURVEPOLYGON_TYPE THEN SamplesLE[3]
                       ELSE SamplesLE[1]),
                 LW_PARSER_CHECK_ALL, FALSE)) :
        n \in ChainLevels,
        code \in {WKB_GEOMETRYCOLLECTION_TYPE, WKB_CURVEPOLYGON_TYPE} }

(* Type codes that are mapped to no kind: unmapped low digits, and 4000    *)
(* and above.                                                              *)
UnknownCodes == {0, 18, 99, 999, 1000, 2018, 3999, 4000, 4001, 4007, 9001}

(* A header with an unknown type code at the root, as a child of a         *)
(* GeometryCollection and as a ring of a CurvePolygon; the child or ring   *)
(* is the only one (n = 0) or comes after a sibling, sample n.             *)
UnknownTests ==
    { Test("unknown_root", t, 0, le, <<>>,
           Whole(Header(le, t) \o Zeros(PadLen), c, h)) :
        t \in UnknownCodes, le \in BOOLEAN, c \in Checks, h \in BOOLEAN }
    \cup
    { Test(IF p = WKB_CURVEPOLYGON_TYPE THEN "unknown_ring" ELSE "unknown_child",
           t, n, le, <<>>,
           Whole(Header(le, p) \o EncInt(IF n = 0 THEN 1 ELSE 2, le)
                 \o (IF n = 0 THEN <<>> ELSE SampleOf(le, n))
                 \o Header(le, t) \o Zeros(PadLen), c, h)) :
        t \in UnknownCodes, le \in BOOLEAN, c \in Checks, h \in BOOLEAN,
        p \in {WKB_GEOMETRYCOLLECTION_TYPE, WKB_CURVEPOLYGON_TYPE},
        n \in {0, 1, 3, 7} }

(* Points of every dimensionality whose coordinates are drawn from an      *)
(* ordinary number, infinity and the two NaNs; kind is the type code, n    *)
(* the SRID of an extended header with the Z flag, -1 for an ISO header.   *)
Coords == {D1, DInf, DNaN, DNaN2}

PointDims(code) == 2 + (IF code \div 1000 \in {1, 3} THEN 1 ELSE 0)
                     + (IF code \div 1000 \in {2, 3} THEN 1 ELSE 0)

PointTests ==
    { Test("point", code, -1, le, p,
           Whole(Header(le, code) \o EncPoint(p, le), LW_PARSER_CHECK_ALL, h)) :
        <<code, p>> \in UNION { {<<code, p>> : p \in [1..PointDims(code) -> Coords]} :
                                code \in {1, 1001, 2001, 3001} },
        le \in BOOLEAN, h \in BOOLEAN }
    \cup
    { Test("point", 1001, 4326, le, p,
           Whole(EHeader(le, WKB_POINT_TYPE, TRUE, FALSE, 4326) \o EncPoint(p, le),
                 LW_PARSER_CHECK_ALL, h)) :
        p \in [1..3 -> Coords], le \in BOOLEAN, h \in BOOLEAN }

(* Point counts around the largest one ptarray_from_wkb_state accepts:     *)
(* 0x07FFFFFF (accepted, but more than the buffer holds), 0x08000000,      *)
(* 0x80000000 and 0xFFFFFFFF.                                              *)
HugeCounts == {<<2047, 65535>>, <<2048, 0>>, <<32768, 0>>, <<65535, 65535>>}

(* A Line, CircularString, Polygon ring or Triangle ring declaring such a  *)
(* count, at the root (n = 0) or as the only child of a collection of type *)
(* code n.                                                                 *)
HugeTests ==
    { Test("huge", code, n, le, cnt,
           Whole((IF n = 0 THEN <<>> ELSE Header(le, n) \o EncInt(1, le))
                 \o Header(le, code)
                 \o (IF code \in {WKB_POLYGON_TYPE, WKB_TRIANGLE_TYPE}
                     THEN EncInt(1, le) ELSE <<>>)
                 \o EncU32(cnt, le) \o Zeros(PadLen), c, h)) :
        code \in {WKB_LINESTRING_TYPE, WKB_CIRCULARSTRING_TYPE, WKB_POLYGON_TYPE,
                  WKB_TRIANGLE_TYPE},
        n \in {0, WKB_GEOMETRYCOLLECTION_TYPE, WKB_TIN_TYPE},
        cnt \in HugeCounts, le \in BOOLEAN, c \in Checks, h \in BOOLEAN }

(* Geometries a structural check rejects: too few points, an even number   *)
(* of points in a CircularString, an open ring.                            *)
Rejects(le) ==
    LET open2 == <<<<D0, D0>>, <<D1, D0>>, <<D1, D2>>, <<D2, D2>>>>
        open3 == <<<<D0, D0, D2>>, <<D1, D0, D2>>, <<D1, D2, D0>>, <<D2, D2, D2>>>>
        short == <<<<D0, D0>>, <<D1, D0>>, <<D0, D0>>>>
        pt == Header(le, WKB_POINT_TYPE) \o EncPoint(<<D1, D2>>, le)
    IN  << WLine(le, WKB_LINESTRING_TYPE, <<<<D0, D1>>>>),
           WLine(le, WKB_CIRCULARSTRING_TYPE, <<<<D0, D1>>>>),
           WLine(le, WKB_CIRCULARSTRING_TYPE, <<<<D0, D1>>, <<D1, D1>>>>),
           WLine(le, WKB_CIRCULARSTRING_TYPE, open2),
           WPoly(le, WKB_POLYGON_TYPE, <<short>>),
           WPoly(le, WKB_POLYGON_TYPE, <<open2>>),
           WPoly(le, WKB_POLYGON_TYPE, <<Ring2, open2>>),
           WPoly(le, WKB_TRIANGLE_TYPE, <<short>>),
           WPoly(le, WKB_TRIANGLE_TYPE, <<Ring2, Ring2>>),
           WColl(le, 1000 + WKB_POLYHEDRALSURFACE_TYPE,
                 <<WPoly(le, 1000 + WKB_POLYGON_TYPE, <<Ring3>>),
                   WPoly(le, 1000 + WKB_POLYGON_TYPE, <<open3>>)>>),
           WColl(le, WKB_GEOMETRYCOLLECTION_TYPE,
                 <<pt, WLine(le, WKB_LINESTRING_TYPE, <<<<D0, D1>>>>)>>),
           WColl(le, WKB_MULTIPOINT_TYPE,
                 <<pt, WLine(le, WKB_LINESTRING_TYPE, <<<<D0, D1>>, <<D2, D1>>>>)>>),
           WColl(le, WKB_CURVEPOLYGON_TYPE,
                 <<WLine(le, WKB_LINESTRING_TYPE, Ring2), pt>>) >>

RejectsLE == Rejects(TRUE)
RejectsBE == Rejects(FALSE)

(* Each sample, and each rejected geometry (kind counts on from the        *)
(* samples), in both byte orders, decoded one after the other on the same  *)
(* host with the same checks.                                              *)
EndianTests ==
    { Test("endian", i, 0, TRUE, <<>>,
           <<Call(SamplesLE[i], Len(SamplesLE[i]), c, h),
             Call(SamplesBE[i], Len(SamplesBE[i]), c, h)>>) :
        i \in 1..NSamples, c \in Checks, h \in BOOLEAN }
    \cup
    { Test("endian", NSamples + i, 0, TRUE, <<>>,
           <<Call(RejectsLE[i], Len(RejectsLE[i]), c, h),
             Call(RejectsBE[i], Len(RejectsBE[i]), c, h)>>) :
        i \in 1..Len(RejectsLE), c \in Checks, h \in BOOLEAN }

RejectTests ==
    { Test("reject", i, 0, le, <<>>,
           Whole(IF le THEN RejectsLE[i] ELSE RejectsBE[i], LW_PARSER_CHECK_ALL, h)) :
        i \in 1..Len(RejectsLE), le \in BOOLEAN, h \in BOOLEAN }

(* Rings and vertex sequences of n points.  The closed ones repeat one      *)
(* point; the open ones differ between first and last point in X and Y     *)
(* ("open") or in Z alone ("open_z"); the shapes with Z are written with   *)
(* the ISO Z type codes.                                                   *)
MaxPoints == 5

RingShapes == {"closed", "open", "closed_z", "open_z"}

ShapeHasZ(shape) == shape \in {"closed_z", "open_z"}

RingPoints(shape, n) ==
    [k \in 1..n |->
        CASE shape = "closed"   -> <<D1, D2>>
          [] shape = "open"     -> IF k = 1 THEN <<D0, D0>> ELSE <<D1, D2>>
          [] shape = "closed_z" -> <<D1, D2, D0>>
          [] shape = "open_z"   -> IF k = 1 THEN <<D1, D2, D1>> ELSE <<D1, D2, D0>>]

RingChecks ==
    {LW_PARSER_CHECK_NONE, {LW_PARSER_CHECK_MINPOINTS}, {LW_PARSER_CHECK_CLOSURE},
     {LW_PARSER_CHECK_ZCLOSURE}, {LW_PARSER_CHECK_MINPOINTS, LW_PARSER_CHECK_ODD},
     LW_PARSER_CHECK_ALL}

(* A Line, CircularString or Triangle of the n points, or a Polygon whose  *)
(* last ring they are, after `before` well-formed rings.                   *)
RingTest(code, n, shape, before, c) ==
    Test("ring", code, n, TRUE, <<shape, before>>,
         Whole(IF code \in {WKB_LINESTRING_TYPE, WKB_CIRCULARSTRING_TYPE}
               THEN WLine(TRUE, IF ShapeHasZ(shape) THEN 1000 + code ELSE code,
                          RingPoints(shape, n))
               ELSE WPoly(TRUE, IF ShapeHasZ(shape) THEN 1000 + code ELSE code,
                          [k \in 1..(before + 1) |->
                              IF k <= before
                              THEN (IF ShapeHasZ(shape) THEN Ring3 ELSE Ring2)
                              ELSE RingPoints(shape, n)]),
               c, FALSE))

RingTests ==
    { RingTest(code, n, shape, 0, c) :
        code \in {WKB_LINESTRING_TYPE, WKB_CIRCULARSTRING_TYPE, WKB_POLYGON_TYPE,
                  WKB_TRIANGLE_TYPE},
        n \in 0..MaxPoints, shape \in RingShapes, c \in RingChecks }
    \cup
    { RingTest(WKB_POLYGON_TYPE, n, shape, 1, c) :
        n \in 0..MaxPoints, shape \in RingShapes, c \in RingChecks }

(* A Triangle header and a ring count, followed by two well-formed rings.  *)
RingCounts == {<<0, 0>>, <<0, 1>>, <<0, 2>>, <<0, 3>>, <<32768, 0>>, UINT_MAX}

TriangleRingTests ==
    { Test("triangle_rings", WKB_TRIANGLE_TYPE, 0, le, cnt,
           Whole(Header(le, WKB_TRIANGLE_TYPE) \o EncU32(cnt, le)
                 \o EncPointArray(Ring2, le) \o EncPointArray(Ring2, le), c, h)) :
        cnt \in RingCounts, le \in BOOLEAN, c \in Checks, h \in BOOLEAN }

(* A PolyhedralSurface with Z of `before` well-formed Polygon faces and a   *)
(* last face of one ring of four points, closed or open in Z.              *)
PolyhedralTests ==
    { Test("polyhedral", WKB_POLYHEDRALSURFACE_TYPE, before, le, shape,
           Whole(WColl(le, 1000 + WKB_POLYHEDRALSURFACE_TYPE,
                       [k \in 1..(before + 1) |->
                           WPoly(le, 1000 + WKB_POLYGON_TYPE,
                                 <<IF k <= before THEN Ring3
                                   ELSE RingPoints(shape, 4)>>)]),
                 c, h)) :
        before \in {0, 1}, shape \in {"closed_z", "open_z"}, le \in BOOLEAN,
        c \in RingChecks, h \in BOOLEAN }

(* Root Point headers whose type word has some of its top four bits set    *)
(* (hi is the upper half of the word: 0x1000 is the bit no flag uses) over *)
(* a plain or an ISO type code, followed by zero bytes.                    *)
TopBits == {4096, 8192, 16384, 32768, 8192 + 16384, 32768 + 8192, 61440}

ExtendedCodes == {WKB_POINT_TYPE, 1000 + WKB_POINT_TYPE, 2000 + WKB_POINT_TYPE,
                  3000 + WKB_POINT_TYPE}

ExtendedTests ==
    { Test("extended", code, hi, le, <<>>,
           Whole(<<IF le THEN 1 ELSE 0>> \o EncU32(<<hi, code>>, le)
                 \o Zeros(PadLen + WKB_INT_SIZE), LW_PARSER_CHECK_NONE, FALSE)) :
        code \in ExtendedCodes, hi \in TopBits, le \in BOOLEAN }

(* Geometries with children: the parent encoded in the byte order lp, its  *)
(* children in the orders la and lb.                                       *)
Mixed(lp, la, lb) ==
    << WColl(lp, WKB_GEOMETRYCOLLECTION_TYPE,
             <<Header(la, WKB_POINT_TYPE) \o EncPoint(<<D1, D2>>, la),
               WLine(lb, WKB_LINESTRING_TYPE, <<<<D0, D1>>, <<D2, D1>>>>)>>),
       WColl(lp, WKB_CURVEPOLYGON_TYPE,
             <<WLine(la, WKB_LINESTRING_TYPE, Ring2),
               WLine(lb, WKB_CIRCULARSTRING_TYPE, Arc2)>>),
       WColl(lp, WKB_GEOMETRYCOLLECTION_TYPE,
             <<WColl(la, WKB_GEOMETRYCOLLECTION_TYPE,
                     <<Header(lb, WKB_POINT_TYPE) \o EncPoint(<<D1, D2>>, lb)>>),
               Header(lp, WKB_POINT_TYPE) \o EncPoint(<<D2, D1>>, lp)>>),
       WColl(lp, WKB_MULTIPOLYGON_TYPE,
             <<WPoly(la, WKB_POLYGON_TYPE, <<Ring2>>),
               WPoly(lb, WKB_POLYGON_TYPE, <<Ring2, Ring2>>)>>) >>

(* Each of them decoded, and then the same geometry encoded in the         *)
(* parent's byte order throughout.                                         *)
MixedTests ==
    { Test("mixed", i, 0, lp, <<la, lb>>,
           <<Call(Mixed(lp, la, lb)[i], Len(Mixed(lp, la, lb)[i]), c, h),
             Call(Mixed(lp, lp, lp)[i], Len(Mixed(lp, lp, lp)[i]), c, h)>>) :
        i \in 1..4, lp \in BOOLEAN, la \in BOOLEAN, lb \in BOOLEAN,
        c \in Checks, h \in BOOLEAN }

(* A GeometryCollection of a Point, a Line, a GeometryCollection of one    *)
(* Point, and a CircularString.  The root, the first Point and the inner   *)
(* Point carry the SRIDs r, a and b in their headers (-1: no SRID flag);   *)
(* the other headers carry none.                                           *)
SridTree(le, r, a, b) ==
    EHeader(le, WKB_GEOMETRYCOLLECTION_TYPE, FALSE, FALSE, r) \o EncInt(4, le)
    \o EHeader(le, WKB_POINT_TYPE, FALSE, FALSE, a) \o EncPoint(<<D1, D2>>, le)
    \o WLine(le, WKB_LINESTRING_TYPE, <<<<D0, D1>>, <<D2, D1>>>>)
    \o WColl(le, WKB_GEOMETRYCOLLECTION_TYPE,
             <<EHeader(le, WKB_POINT_TYPE, FALSE, FALSE, b) \o EncPoint(<<D2, D1>>, le)>>)
    \o WLine(le, WKB_CIRCULARSTRING_TYPE, Arc2)

RootSrids == {-1, 4326, 1000000}
ChildSrids == {-1, 3857}

SridTreeTests ==
    { Test("srid_tree", 0, 0, le, <<r, a, b>>,
           Whole(SridTree(le, r, a, b), LW_PARSER_CHECK_ALL, FALSE)) :
        le \in BOOLEAN, r \in RootSrids, a \in ChildSrids, b \in ChildSrids }

(* A GeometryCollection Z whose last child is a Triangle Z with a ring of  *)
(* the given shape, decoded with a PolyhedralSurface Z of two closed faces *)
(* as the child before it, and then without that surface.                  *)
AfterSurface(le, shape, surface) ==
    WColl(le, 1000 + WKB_GEOMETRYCOLLECTION_TYPE,
          (IF surface
           THEN <<WColl(le, 1000 + WKB_POLYHEDRALSURFACE_TYPE,
                        <<WPoly(le, 1000 + WKB_POLYGON_TYPE, <<Ring3>>),
                          WPoly(le, 1000 + WKB_POLYGON_TYPE, <<Ring3>>)>>)>>
           ELSE <<>>)
          \o <<WPoly(le, 1000 + WKB_TRIANGLE_TYPE, <<RingPoints(shape, 4)>>)>>)

AfterSurfaceTests ==
    { Test("after_surface", 0, 0, le, shape,
           <<Call(AfterSurface(le, shape, TRUE),
                  Len(AfterSurface(le, shape, TRUE)), c, h),
             Call(AfterSurface(le, shape, FALSE),
                  Len(AfterSurface(le, shape, FALSE)), c, h)>>) :
        shape \in {"closed_z", "open_z"}, le \in BOOLEAN, c \in RingChecks,
        h \in BOOLEAN }

(* The first k bytes of a sample decoded with declared size k, and then    *)
(* the same bytes with a tail after them, declared with the tail: each     *)
(* whole sample with tails that are no geometry or look like one, and the  *)
(* Triangle sample cut after its ring count, the tail being its rest.      *)
Tails == {<<0>>, <<255, 255, 255, 255, 255>>, <<1, 1, 0, 0, 0>>}

TriangleSample ==
    CHOOSE i \in 1..NSamples : SamplesLE[i] = WPoly(TRUE, WKB_TRIANGLE_TYPE, <<Ring2>>)
TriangleCut == WKB_BYTE_SIZE + WKB_INT_SIZE + WKB_INT_SIZE

TrailingTest(i, k, le, tail, c, h) ==
    Test("trailing", i, k, le, tail,
         <<Call(SubSeq(SampleOf(le, i), 1, k), k, c, h),
           Call(SubSeq(SampleOf(le, i), 1, k) \o tail, k + Len(tail), c, h)>>)

TrailingTests ==
    { TrailingTest(i, Len(SampleOf(le, i)), le, tail, c, h) :
        i \in 1..NSamples, le \in BOOLEAN, tail \in Tails, c \in Checks,
        h \in BOOLEAN }
    \cup
    { TrailingTest(TriangleSample, TriangleCut, le,
                   SubSeq(SampleOf(le, TriangleSample), TriangleCut + 1,
                          Len(SampleOf(le, TriangleSample))), c, h) :
        le \in BOOLEAN, c \in Checks, h \in BOOLEAN }

(* All the tests, and the one the program has before it draws one.         *)
TestCases ==
    EndianTests \cup TruncationTests \cup TypeTests \cup ChainTests
    \cup UnknownTests \cup PointTests \cup HugeTests \cup RejectTests
    \cup RingTests \cup TriangleRingTests \cup PolyhedralTests
    \cup ExtendedTests \cup MixedTests \cup SridTreeTests \cup AfterSurfaceTests
    \cup TrailingTests

NoTest == Test("none", 0, 0, TRUE, <<>>, <<>>)

(* The program calls lwgeom_from_wkb: the first call draws the test, a     *)
(* later call takes the next buffer of the test.                           *)
lwgeom_from_wkb ==
    /\ pc = "idle"
    /\ \/ /\ results = <<>>
          /\ \E tc \in TestCases : test' = tc /\ Begin(tc.calls[1])
       \/ /\ results # <<>>
          /\ Len(results) < Len(test.calls)
          /\ UNCHANGED test
          /\ Begin(NextCall)

(* lwgeom_from_wkb_state returns r.v to its caller.                        *)
Return(r) ==
    state' = r.s /\ val' = r.v /\ pc' = "return" /\ UNCHANGED stack

(* The function fn has read its header, b: it returns at once, or enters   *)
(* its child loop and calls lwgeom_from_wkb_state for the first child.     *)
EnterLoop(fn, b) ==
    IF b.loop
    THEN /\ state' = b.s
         /\ stack' = Append(stack, Frame(fn, b.v, b.ngeoms))
         /\ val' = NULL
         /\ pc' = "lwgeom_from_wkb_state"
    ELSE Return(b)

(* The switch of lwgeom_from_wkb_state on the type the header, h, gave.    *)
lwgeom_from_wkb_state_switch(h) ==
    IF ~h.ok THEN Return([s |-> h.s, v |-> NULL])
    ELSE IF h.s.lwtype = CURVEPOLYTYPE
         THEN EnterLoop("lwcurvepoly_from_wkb_state",
                        lwcurvepoly_from_wkb_state(h.s))
    ELSE IF IsCollectionType(h.s.lwtype)
         THEN EnterLoop("lwcollection_from_wkb_state",
                        lwcollection_from_wkb_state(h.s))
    ELSE Return(lwgeom_from_wkb_state_leaf(h.s))

(* One call of lwgeom_from_wkb_state, up to its return when the type does  *)
(* not recurse, or to the first call of itself out of a child loop.        *)
lwgeom_from_wkb_state ==
    /\ pc = "lwgeom_from_wkb_state"
    /\ lwgeom_from_wkb_state_switch(lwgeom_from_wkb_state_header(Enter(state)))
    /\ UNCHANGED <<test, results, hex, api>>

(* A child has been returned to the waiting loop of fn, which added it     *)
(* with result a: the next child, or the end of the loop and the return    *)
(* of fn (lwcollection_from_wkb_state lowers the depth before it returns). *)
Resume(fn, a) ==
    IF a.v.type = "NULL"
    THEN state' = a.s /\ val' = NULL /\ stack' = Pop /\ pc' = "return"
    ELSE IF U32Gt(Top.ngeoms, U32(Top.i + 1))
         THEN /\ state' = a.s
              /\ stack' = [stack EXCEPT ![Len(stack)] =
                              [@ EXCEPT !.geom = a.v, !.i = @ + 1]]
              /\ val' = NULL
              /\ pc' = "lwgeom_from_wkb_state"
    ELSE /\ state' = IF fn = "lwcollection_from_wkb_state"
                     THEN lwcollection_from_wkb_state_end(a.s)
                     ELSE a.s
         /\ val' = a.v
         /\ stack' = Pop
         /\ pc' = "return"

(* lwgeom_from_wkb_state returns into the loop of                          *)
(* lwcollection_from_wkb_state.                                            *)
lwcollection_from_wkb_state_loop ==
    /\ pc = "return"
    /\ stack # <<>>
    /\ Top.fn = "lwcollection_from_wkb_state"
    /\ Resume(Top.fn,
              lwcollection_from_wkb_state_add(Leave(state), Top.geom, val))
    /\ UNCHANGED <<test, results, hex, api>>

(* lwgeom_from_wkb_state returns into the loop of                          *)
(* lwcurvepoly_from_wkb_state.                                             *)
lwcurvepoly_from_wkb_state_loop ==
    /\ pc = "return"
    /\ stack # <<>>
    /\ Top.fn = "lwcurvepoly_from_wkb_state"
    /\ Resume(Top.fn,
              lwcurvepoly_from_wkb_state_add(Leave(state), Top.geom, val))
    /\ UNCHANGED <<test, results, hex, api>>

(* The outermost lwgeom_from_wkb_state returns, and lwgeom_from_wkb        *)
(* returns what it returned.                                               *)
lwgeom_from_wkb_return ==
    /\ pc = "return"
    /\ stack = <<>>
    /\ state' = Leave(state)
    /\ results' = Append(results, [v |-> val, s |-> state'])
    /\ pc' = "idle"
    /\ UNCHANGED <<test, stack, val, hex, api>>

-----------------------------------------------------------------------------
(* The hex decoder                                                         *)
(*                                                                         *)
(* A char is modelled by the value of its byte, 0..255.  Whether plain     *)
(* char is signed is the build's choice; where it is, (int)c is negative   *)
(* for a char with the high bit set, and hex2char[(int)c] reads memory in  *)
(* front of the table: the value of that read is whatever lies there.      *)

(* The static character->number map; anything above 15 is invalid.         *)
hex2char ==
    [c \in 0..255 |->
        IF c \in 48..57 THEN c - 48
        ELSE IF c \in 65..70 THEN c - 55
        ELSE IF c \in 97..102 THEN c - 87
        ELSE 20]

(* (int)c for the char with byte value c.                                  *)
IntOfChar(char_signed, c) == IF char_signed /\ c >= 128 THEN c - 256 ELSE c

InTable(index) == index \in DOMAIN hex2char

(* hex2char[index]; outside the table, the byte found there.               *)
ReadTable(index, beyond) == IF InTable(index) THEN hex2char[index] ELSE beyond

(* The call as it starts, and the loop of bytes_from_hexbytes from byte i  *)
(* on: both characters are looked up, then tested.                         *)
HexState(hexbuf, hexsize, char_signed) ==
    [hexbuf |-> hexbuf, hexsize |-> hexsize, char_signed |-> char_signed,
     buf |-> <<>>, ret |-> "none", outside |-> FALSE, errors |-> <<>>]

NoHex == HexState(<<>>, 0, FALSE)

HexFail(h, msg) == [h EXCEPT !.ret = "null", !.buf = <<>>, !.errors = Append(@, msg)]

HexStep(h, i, i1, i2, h1, h2) ==
    IF h1 > 15 THEN HexFail(h, "Invalid hex character encountered")
    ELSE IF h2 > 15 THEN HexFail(h, "Invalid hex character encountered")
    ELSE [h EXCEPT !.buf = Append(@, BitAnd(h1, 15) * 16 + BitAnd(h2, 15))]

RECURSIVE bytes_from_hexbytes_loop(_, _, _)
bytes_from_hexbytes_loop(h, i, beyond) ==
    IF i >= h.hexsize \div 2 \/ h.ret = "null"
    THEN (IF h.ret = "null" THEN h ELSE [h EXCEPT !.ret = "buf"])
    ELSE bytes_from_hexbytes_loop(
             [HexStep(h, i,
                      IntOfChar(h.char_signed, h.hexbuf[2 * i + 1]),
                      IntOfChar(h.char_signed, h.hexbuf[2 * i + 2]),
                      ReadTable(IntOfChar(h.char_signed, h.hexbuf[2 * i + 1]), beyond),
                      ReadTable(IntOfChar(h.char_signed, h.hexbuf[2 * i + 2]), beyond))
                 EXCEPT !.outside =
                     \/ @
                     \/ ~InTable(IntOfChar(h.char_signed, h.hexbuf[2 * i + 1]))
                     \/ ~InTable(IntOfChar(h.char_signed, h.hexbuf[2 * i + 2]))],
             i + 1, beyond)

(* bytes_from_hexbytes(hexbuf, hexsize).                                   *)
bytes_from_hexbytes_of(h, beyond) ==
    IF h.hexsize % 2 # 0
    THEN HexFail(h, "Invalid hex string, length has to be a multiple of two!")
    ELSE bytes_from_hexbytes_loop(h, 0, beyond)

(* The strings the decoder is run on: every string of up to MaxHexLen      *)
(* characters of HexAlphabet ('/', '0', '9', 'A', 'G', 'f' and three       *)
(* characters with the high bit set, one of them '0' with that bit), and   *)
(* every char value next to a digit; the values a read in front of the     *)
(* table may find.                                                         *)
MaxHexLen == 3

HexAlphabet == {47, 48, 57, 65, 71, 102, 128, 176, 255}

HexStrings ==
    UNION { [1..n -> HexAlphabet] : n \in 0..MaxHexLen }
    \cup { <<c, 48>> : c \in 0..255 } \cup { <<70, c>> : c \in 0..255 }

BeyondTable == {0, 15, 16, 255}

(* The program calls bytes_from_hexbytes with a string and a length within *)
(* it.                                                                     *)
bytes_from_hexbytes ==
    /\ pc = "idle"
    /\ results = <<>>
    /\ \E hexbuf \in HexStrings, char_signed \in BOOLEAN, beyond \in BeyondTable :
          \E hexsize \in 0..Len(hexbuf) :
              hex' = bytes_from_hexbytes_of(HexState(hexbuf, hexsize, char_signed),
                                           beyond)
    /\ pc' = "done"
    /\ UNCHANGED <<test, state, stack, val, results, api>>

-----------------------------------------------------------------------------
(* The 2D distance engine                                                  *)
(*                                                                         *)
(* Coordinates are whole numbers of a unit, 2^scale, that all coordinates  *)
(* of a call share (scale is 0, or 133 for coordinates near 1e40); doubles *)
(* hold such numbers and their products exactly.  A squared distance is a  *)
(* fraction [n, d] of units squared, or infinite; a witness point is       *)
(* <<xn, yn, d>>, the point (xn/d, yn/d).                                  *)

DIST_MIN == 1

Frac(n, d) == [inf |-> FALSE, n |-> n, d |-> d]

Infinity == [inf |-> TRUE, n |-> 1, d |-> 0]

FracLess(a, b) ==
    IF a.inf THEN FALSE ELSE IF b.inf THEN TRUE ELSE a.n * b.d < b.n * a.d

FracLeq(a, b) == ~FracLess(b, a)

Pt(p) == <<p[1], p[2], 1>>

Sq(x) == x * x

(* The accumulator of a distance calculation, after                        *)
(* lw_dist2d_distpts_init: nothing compared yet.                           *)
DISTPTS(distance, p1, p2, mode, twisted, tolerance) ==
    [distance |-> distance, p1 |-> p1, p2 |-> p2, mode |-> mode,
     twisted |-> twisted, tolerance |-> tolerance]

lw_dist2d_distpts_init(mode, tolerance) ==
    DISTPTS(Infinity, Pt(<<0, 0>>), Pt(<<0, 0>>), mode, FALSE, tolerance)

(* Keep the squared distance d between witness w1, on the first geometry   *)
(* of the running entry, and w2, on its second, if it is smaller than the  *)
(* best so far; when the entry runs on swapped operands the witnesses are  *)
(* stored swapped back.                                                    *)
Keep(dl, d, w1, w2) ==
    IF FracLess(d, dl.distance)
    THEN [dl EXCEPT !.distance = d,
                    !.p1 = IF dl.twisted THEN w2 ELSE w1,
                    !.p2 = IF dl.twisted THEN w1 ELSE w2]
    ELSE dl

Twist(dl) == [dl EXCEPT !.twisted = ~@]

lw_dist2d_pt_pt(p, q, dl) ==
    Keep(dl, Frac(Sq(p[1] - q[1]) + Sq(p[2] - q[2]), 1), Pt(p), Pt(q))

(* Point to segment: the perpendicular projection of p on A-B, clamped to  *)
(* the nearer end when it falls outside the segment.                       *)
Dot(p, A, B) == (p[1] - A[1]) * (B[1] - A[1]) + (p[2] - A[2]) * (B[2] - A[2])

Cross(p, A, B) == (B[1] - A[1]) * (p[2] - A[2]) - (B[2] - A[2]) * (p[1] - A[1])

Len2(A, B) == Sq(B[1] - A[1]) + Sq(B[2] - A[2])

lw_dist2d_pt_seg(p, A, B, dl) ==
    IF A = B THEN lw_dist2d_pt_pt(p, A, dl)
    ELSE IF Dot(p, A, B) <= 0 THEN lw_dist2d_pt_pt(p, A, dl)
    ELSE IF Dot(p, A, B) >= Len2(A, B) THEN lw_dist2d_pt_pt(p, B, dl)
    ELSE Keep(dl, Frac(Sq(Cross(p, A, B)), Len2(A, B)), Pt(p),
              <<A[1] * Len2(A, B) + Dot(p, A, B) * (B[1] - A[1]),
                A[2] * Len2(A, B) + Dot(p, A, B) * (B[2] - A[2]),
                Len2(A, B)>>)

(* Segment to segment: zero at the crossing point when the segments cross, *)
(* otherwise the smallest of the four end-to-segment distances (which is   *)
(* zero for collinear segments that overlap); a segment of no length is a  *)
(* point.                                                                  *)
Crosses(A, B, C, D) ==
    /\ Cross(A, C, D) # Cross(B, C, D)
    /\ Cross(C, A, B) * Cross(D, A, B) <= 0
    /\ Cross(A, C, D) * Cross(B, C, D) <= 0

Sgn(x) == IF x < 0 THEN -1 ELSE 1

(* The crossing point of A-B and C-D: A + r (B - A), r = r_top / r_bot.    *)
r_top(A, B, C, D) == Cross(A, C, D)

r_bot(A, B, C, D) == Cross(A, C, D) - Cross(B, C, D)

CrossingPoint(A, B, top, bot) ==
    <<Sgn(bot) * (A[1] * bot + top * (B[1] - A[1])),
      Sgn(bot) * (A[2] * bot + top * (B[2] - A[2])),
      Sgn(bot) * bot>>

KeepCrossing(dl, X) == Keep(dl, Frac(0, 1), X, X)

lw_dist2d_seg_seg(A, B, C, D, dl) ==
    IF A = B THEN lw_dist2d_pt_seg(A, C, D, dl)
    ELSE IF C = D THEN Twist(lw_dist2d_pt_seg(C, A, B, Twist(dl)))
    ELSE IF Crosses(A, B, C, D)
         THEN KeepCrossing(dl, CrossingPoint(A, B, r_top(A, B, C, D),
                                             r_bot(A, B, C, D)))
    ELSE Twist(lw_dist2d_pt_seg(D, A, B,
               lw_dist2d_pt_seg(C, A, B,
                   Twist(lw_dist2d_pt_seg(B, C, D,
                             lw_dist2d_pt_seg(A, C, D, dl))))))

(* A tolerance is a whole number of units, or HUGE_VAL, the double          *)
(* +infinity; its square.                                                  *)
HUGE_VAL == 2 ^ 20

ToleranceSq(tolerance) ==
    IF tolerance = HUGE_VAL THEN Infinity ELSE Frac(Sq(tolerance), 1)

(* The accumulator is within the tolerance: the scans stop early.          *)
WithinTolerance(dl) == FracLeq(dl.distance, ToleranceSq(dl.tolerance))

(* A point against a point array: the first vertex, then every segment in  *)
(* index order.                                                            *)
RECURSIVE lw_dist2d_pt_ptarray_from(_, _, _, _)
lw_dist2d_pt_ptarray_from(p, pa, k, dl) ==
    IF k >= Len(pa) \/ WithinTolerance(dl) THEN dl
    ELSE lw_dist2d_pt_ptarray_from(p, pa, k + 1,
                                   lw_dist2d_pt_seg(p, pa[k], pa[k + 1], dl))

lw_dist2d_pt_ptarray(p, pa, dl) ==
    lw_dist2d_pt_ptarray_from(p, pa, 1, lw_dist2d_pt_pt(p, pa[1], dl))

(* Two point arrays: every segment of the first against every segment of   *)
(* the second, in index order; k counts the pairs done.  An array of one   *)
(* point is a point.                                                       *)
RECURSIVE lw_dist2d_ptarray_ptarray_from(_, _, _, _)
lw_dist2d_ptarray_ptarray_from(l1, l2, k, dl) ==
    IF k >= (Len(l1) - 1) * (Len(l2) - 1) \/ WithinTolerance(dl) THEN dl
    ELSE lw_dist2d_ptarray_ptarray_from(l1, l2, k + 1,
             lw_dist2d_seg_seg(l1[(k \div (Len(l2) - 1)) + 1],
                               l1[(k \div (Len(l2) - 1)) + 2],
                               l2[(k % (Len(l2) - 1)) + 1],
                               l2[(k % (Len(l2) - 1)) + 2], dl))

lw_dist2d_ptarray_ptarray(l1, l2, dl) ==
    IF Len(l1) = 1 THEN lw_dist2d_pt_ptarray(l1[1], l2, dl)
    ELSE IF Len(l2) = 1 THEN Twist(lw_dist2d_pt_ptarray(l2[1], l1, Twist(dl)))
    ELSE lw_dist2d_ptarray_ptarray_from(l1, l2, 0, dl)

(* A point against a ring: on it, or an odd number of edges crossed by the *)
(* ray to the right of the point.                                          *)
OnSegment(p, A, B) ==
    /\ Cross(p, A, B) = 0
    /\ Dot(p, A, B) >= 0
    /\ Dot(p, A, B) <= Len2(A, B)

OnRing(ring, p) == \E k \in 1..(Len(ring) - 1) : OnSegment(p, ring[k], ring[k + 1])

CrossedEdges(ring, p) ==
    { k \in 1..(Len(ring) - 1) :
        \/ ring[k][2] <= p[2] /\ p[2] < ring[k + 1][2]
           /\ Cross(p, ring[k], ring[k + 1]) > 0
        \/ ring[k + 1][2] <= p[2] /\ p[2] < ring[k][2]
           /\ Cross(p, ring[k], ring[k + 1]) < 0 }

ptarray_contains_point(ring, p) ==
    OnRing(ring, p) \/ Cardinality(CrossedEdges(ring, p)) % 2 = 1

(* The geometries the engine measures: a kind, an SRID, the vertex         *)
(* sequence of a Point (none when empty), Line, CircularString or          *)
(* Triangle, the rings of a Polygon, the ring geometries of a CurvePolygon *)
(* or the children of a collection.                                        *)
LWGEOM(type, srid, points, rings, geoms) ==
    [type |-> type, srid |-> srid, points |-> points, rings |-> rings,
     geoms |-> geoms]

(* No vertices, recursively.                                               *)
RECURSIVE lwgeom_is_empty(_)
lwgeom_is_empty(g) ==
    CASE g.type \in {POINTTYPE, LINETYPE, CIRCSTRINGTYPE, TRIANGLETYPE} ->
            Len(g.points) = 0
      [] g.type = POLYGONTYPE -> Len(g.rings) = 0
      [] OTHER -> \A k \in 1..Len(g.geoms) : lwgeom_is_empty(g.geoms[k])

(* The boundaries of a primitive, in stored order, and the point that      *)
(* stands for it in a containment check.                                   *)
Boundaries(g) ==
    CASE g.type = POLYGONTYPE -> g.rings
      [] g.type = CURVEPOLYTYPE -> [k \in 1..Len(g.geoms) |-> g.geoms[k].points]
      [] OTHER -> <<g.points>>

FirstPoint(g) == Boundaries(g)[1][1]

IsArea(g) == g.type \in {POLYGONTYPE, CURVEPOLYTYPE}

(* Inside the shell, boundary included, and inside no hole.                *)
ContainsPoint(g, p) ==
    /\ ptarray_contains_point(Boundaries(g)[1], p)
    /\ \A k \in 2..Len(Boundaries(g)) :
           OnRing(Boundaries(g)[k], p) \/ ~ptarray_contains_point(Boundaries(g)[k], p)

(* Every boundary of the first against every boundary of the second.       *)
RECURSIVE lw_dist2d_rings_from(_, _, _, _)
lw_dist2d_rings_from(b1, b2, k, dl) ==
    IF k >= Len(b1) * Len(b2) \/ WithinTolerance(dl) THEN dl
    ELSE lw_dist2d_rings_from(b1, b2, k + 1,
             lw_dist2d_ptarray_ptarray(b1[(k \div Len(b2)) + 1],
                                       b2[(k % Len(b2)) + 1], dl))

(* The dispatch matrix holds the entries lw_dist2d_<kind1>_<kind2> for     *)
(* kind1 not after kind2 in this order.                                    *)
KindRank(type) ==
    CASE type = POINTTYPE -> 1
      [] type = LINETYPE -> 2
      [] type = TRIANGLETYPE -> 3
      [] type = CIRCSTRINGTYPE -> 4
      [] type = POLYGONTYPE -> 5
      [] type = CURVEPOLYTYPE -> 6

(* The entry for (kind of g1, kind of g2): zero when one operand's point   *)
(* lies in the other's area, the boundary scan otherwise.                  *)
lw_dist2d_entry(g1, g2, dl) ==
    IF IsArea(g2) /\ ContainsPoint(g2, FirstPoint(g1))
    THEN Keep(dl, Frac(0, 1), Pt(FirstPoint(g1)), Pt(FirstPoint(g1)))
    ELSE IF IsArea(g1) /\ ContainsPoint(g1, FirstPoint(g2))
    THEN Keep(dl, Frac(0, 1), Pt(FirstPoint(g2)), Pt(FirstPoint(g2)))
    ELSE lw_dist2d_rings_from(Boundaries(g1), Boundaries(g2), 0, dl)

(* The dispatch swapping the operands without setting twisted.             *)
lw_dist2d_distribute_bruteforce_untwisted(lwg1, lwg2, dl) ==
    IF KindRank(lwg1.type) <= KindRank(lwg2.type)
    THEN lw_dist2d_entry(lwg1, lwg2, dl)
    ELSE lw_dist2d_entry(lwg2, lwg1, dl)

(* Dispatch on the ordered pair of kinds: where the matrix has no entry    *)
(* for (kind1, kind2) the operands are swapped and twisted is set for the  *)
(* call of the (kind2, kind1) entry.                                       *)
lw_dist2d_distribute_bruteforce(lwg1, lwg2, dl) ==
    IF KindRank(lwg1.type) <= KindRank(lwg2.type)
    THEN lw_dist2d_entry(lwg1, lwg2, dl)
    ELSE Twist(lw_dist2d_entry(lwg2, lwg1, Twist(dl)))

lw_dist2d_is_collection(g) == IsCollectionType(g.type)

(* Collections are expanded: every child of the first operand against      *)
(* every child of the second, the accumulator shared; an empty operand is  *)
(* passed over.                                                            *)
RECURSIVE lw_dist2d_recursive(_, _, _)
RECURSIVE lw_dist2d_children(_, _, _, _, _)
lw_dist2d_children(lwg1, lwg2, first, k, dl) ==
    IF k > Len(IF first THEN lwg1.geoms ELSE lwg2.geoms) THEN dl
    ELSE lw_dist2d_children(lwg1, lwg2, first, k + 1,
             IF first THEN lw_dist2d_recursive(lwg1.geoms[k], lwg2, dl)
             ELSE lw_dist2d_recursive(lwg1, lwg2.geoms[k], dl))

lw_dist2d_recursive(lwg1, lwg2, dl) ==
    IF lw_dist2d_is_collection(lwg1) THEN lw_dist2d_children(lwg1, lwg2, TRUE, 1, dl)
    ELSE IF lw_dist2d_is_collection(lwg2)
         THEN lw_dist2d_children(lwg1, lwg2, FALSE, 1, dl)
    ELSE IF lwgeom_is_empty(lwg1) \/ lwgeom_is_empty(lwg2) THEN dl
    ELSE lw_dist2d_distribute_bruteforce(lwg1, lwg2, dl)

lw_dist2d_comp(lw1, lw2, dl) == lw_dist2d_recursive(lw1, lw2, dl)

(* The smallest distance within the tolerance, or the untouched sentinel.  *)
lwgeom_mindistance2d_tolerance(lw1, lw2, tolerance) ==
    lw_dist2d_comp(lw1, lw2, lw_dist2d_distpts_init(DIST_MIN, tolerance)).distance

lwgeom_mindistance2d(lw1, lw2) == lwgeom_mindistance2d_tolerance(lw1, lw2, 0)

-----------------------------------------------------------------------------
(* The measurement entry points                                            *)
(*                                                                         *)
(* Each returns what its caller gets, ret, with the calls it made on the   *)
(* way, in order.                                                          *)

(* FLT_MAX is just under 2^128, and no distance of the model lies between  *)
(* the two: a squared distance of n/d units of 2^scale is below FLT_MAX    *)
(* squared when n * 4^scale < 4^128 * d (n is below 2^31).                 *)
FLT_MAX_EXP == 128

LessThanFLT_MAX(dist, scale) ==
    /\ ~dist.inf
    /\ IF scale > FLT_MAX_EXP THEN dist.n * (4 ^ (scale - FLT_MAX_EXP)) < dist.d
       ELSE IF FLT_MAX_EXP - scale >= 16 THEN TRUE
       ELSE dist.n < (4 ^ (FLT_MAX_EXP - scale)) * dist.d

Returned(ret, value, events) == [ret |-> ret, value |-> value, events |-> events]

(* gserialized_error_if_srid_mismatch raises an error when the SRIDs of    *)
(* the operands differ; PG_ERROR_NULL makes the entry point answer null.   *)
SridMismatch(geom1, geom2) == geom1.srid # geom2.srid

PG_ERROR_NULL(events) == Returned("null", Infinity, events)

ST_distance_return(mindist, scale, events) ==
    IF LessThanFLT_MAX(mindist, scale) THEN Returned("number", mindist, events)
    ELSE PG_ERROR_NULL(events)

ST_distance_of(geom1, geom2, scale) ==
    IF SridMismatch(geom1, geom2)
    THEN Returned("error", Infinity,
                  <<"lwgeom_from_gserialized", "lwgeom_from_gserialized",
                    "gserialized_error_if_srid_mismatch">>)
    ELSE ST_distance_return(lwgeom_mindistance2d(geom1, geom2), scale,
                            <<"lwgeom_from_gserialized", "lwgeom_from_gserialized",
                              "gserialized_error_if_srid_mismatch",
                              "lwgeom_mindistance2d", "lwgeom_free", "lwgeom_free">>)

(* lwgeom_closest_point gives the first witness point, or an empty         *)
(* geometry when no distance was found.                                    *)
LWGEOM_closestpoint_return(dl, events) ==
    IF dl.distance.inf THEN Returned("null", dl.p1, events)
    ELSE Returned("point", dl.p1,
                  events \o <<"geometry_serialize", "lwgeom_free", "lwgeom_free",
                              "lwgeom_free">>)

LWGEOM_closestpoint_of(geom1, geom2) ==
    IF SridMismatch(geom1, geom2)
    THEN Returned("error", Infinity,
                  <<"lwgeom_from_gserialized", "lwgeom_from_gserialized",
                    "gserialized_error_if_srid_mismatch">>)
    ELSE LWGEOM_closestpoint_return(
             lw_dist2d_comp(geom1, geom2, lw_dist2d_distpts_init(DIST_MIN, 0)),
             <<"lwgeom_from_gserialized", "lwgeom_from_gserialized",
               "gserialized_error_if_srid_mismatch", "lwgeom_closest_point",
               "lwgeom_is_empty">>)

LWGEOM_dwithin_of(geom1, geom2, tolerance) ==
    IF tolerance < 0
    THEN Returned("error", Infinity,
                  <<"lwgeom_from_gserialized", "lwgeom_from_gserialized">>)
    ELSE IF SridMismatch(geom1, geom2)
    THEN Returned("error", Infinity,
                  <<"lwgeom_from_gserialized", "lwgeom_from_gserialized",
                    "gserialized_error_if_srid_mismatch">>)
    ELSE Returned("boolean",
                  FracLeq(lwgeom_mindistance2d_tolerance(geom1, geom2, tolerance),
                          ToleranceSq(tolerance)),
                  <<"lwgeom_from_gserialized", "lwgeom_from_gserialized",
                    "gserialized_error_if_srid_mismatch",
                    "lwgeom_mindistance2d_tolerance">>)

(* The geodetic distance itself is computed outside this model.            *)
geography_distance_of(g1, g2) ==
    IF SridMismatch(g1, g2)
    THEN Returned("error", Infinity, <<"gserialized_error_if_srid_mismatch">>)
    ELSE IF lwgeom_is_empty(g1) \/ lwgeom_is_empty(g2)
    THEN PG_ERROR_NULL(<<"gserialized_error_if_srid_mismatch",
                         "spheroid_init_from_srid", "gserialized_is_empty">>)
    ELSE Returned("number", Infinity,
                  <<"gserialized_error_if_srid_mismatch", "spheroid_init_from_srid",
                    "gserialized_is_empty", "geography_tree_distance">>)

(* The number of vertices of a geometry: of its point array, of all its    *)
(* rings, of all its children.                                             *)
lwline_count_vertices(line) == Len(line.points)

RECURSIVE lwpoly_count_vertices_from(_, _)
lwpoly_count_vertices_from(poly, i) ==
    IF i > Len(poly.rings) THEN 0
    ELSE Len(poly.rings[i]) + lwpoly_count_vertices_from(poly, i + 1)

lwpoly_count_vertices(poly) == lwpoly_count_vertices_from(poly, 1)

RECURSIVE lwgeom_count_vertices(_)
RECURSIVE lwcollection_count_vertices_from(_, _)
lwcollection_count_vertices_from(col, i) ==
    IF i > Len(col.geoms) THEN 0
    ELSE lwgeom_count_vertices(col.geoms[i])
         + lwcollection_count_vertices_from(col, i + 1)

lwcollection_count_vertices(col) == lwcollection_count_vertices_from(col, 1)

lwgeom_count_vertices(geom) ==
    IF lwgeom_is_empty(geom) THEN 0
    ELSE CASE geom.type = POINTTYPE -> 1
           [] geom.type \in {TRIANGLETYPE, CIRCSTRINGTYPE, LINETYPE} ->
                  lwline_count_vertices(geom)
           [] geom.type = POLYGONTYPE -> lwpoly_count_vertices(geom)
           [] geom.type \in {COMPOUNDTYPE, CURVEPOLYTYPE, MULTICURVETYPE,
                             MULTISURFACETYPE, MULTIPOINTTYPE, MULTILINETYPE,
                             MULTIPOLYGONTYPE, POLYHEDRALSURFACETYPE, TINTYPE,
                             COLLECTIONTYPE} ->
                  lwcollection_count_vertices(geom)
           [] OTHER -> 0

lwgeom_needs_bbox_two_only(geom) ==
    IF geom.type = POINTTYPE THEN FALSE
    ELSE IF geom.type = LINETYPE
         THEN IF lwgeom_count_vertices(geom) = 2 THEN FALSE ELSE TRUE
    ELSE TRUE

lwgeom_needs_bbox(geom) ==
    IF geom.type = POINTTYPE THEN FALSE
    ELSE IF geom.type = LINETYPE
         THEN IF lwgeom_count_vertices(geom) <= 2 THEN FALSE ELSE TRUE
    ELSE TRUE

(* Return TRUE if the geometry may contain sub-geometries.                 *)
lwtype_is_collection(type) ==
    type \in {MULTIPOINTTYPE, MULTILINETYPE, MULTIPOLYGONTYPE, COLLECTIONTYPE,
              CURVEPOLYTYPE, COMPOUNDTYPE, MULTICURVETYPE, MULTISURFACETYPE,
              POLYHEDRALSURFACETYPE, TINTYPE}

lwgeom_is_collection(geom) == lwtype_is_collection(geom.type)

(* Set the SRID of the geometry and, for a collection, of all the          *)
(* children (the rings of a CurvePolygon are the children it has).         *)
RECURSIVE lwgeom_set_srid(_, _)
lwgeom_set_srid_shallow(geom, srid) ==
    IF lwgeom_is_collection(geom)
    THEN [geom EXCEPT !.srid = srid,
                      !.geoms = [i \in 1..Len(geom.geoms) |->
                                    [geom.geoms[i] EXCEPT !.srid = srid]]]
    ELSE [geom EXCEPT !.srid = srid]

lwgeom_set_srid(geom, srid) ==
    IF lwgeom_is_collection(geom)
    THEN [geom EXCEPT !.srid = srid,
                      !.geoms = [i \in 1..Len(geom.geoms) |->
                                    lwgeom_set_srid(geom.geoms[i], srid)]]
    ELSE [geom EXCEPT !.srid = srid]

(* The closure rules of the single kinds: a Line or CircularString ends    *)
(* where it starts, every ring of a Polygon does, a CompoundCurve ends     *)
(* where its first component starts; a TIN or PolyhedralSurface is closed  *)
(* when every edge of its faces belongs to exactly two of them.            *)
ptarray_is_closed(pa) == Len(pa) > 0 /\ pa[1] = pa[Len(pa)]

lwline_is_closed(line) == ptarray_is_closed(line.points)

lwcircstring_is_closed(curve) == ptarray_is_closed(curve.points)

lwpoly_is_closed(poly) ==
    \A i \in 1..Len(poly.rings) : ptarray_is_closed(poly.rings[i])

lwcompound_is_closed(compound) ==
    /\ Len(compound.geoms[1].points) > 0
    /\ Len(compound.geoms[Len(compound.geoms)].points) > 0
    /\ compound.geoms[1].points[1]
          = compound.geoms[Len(compound.geoms)].points[
                Len(compound.geoms[Len(compound.geoms)].points)]

FaceRings(g) ==
    IF g.type = TINTYPE THEN [i \in 1..Len(g.geoms) |-> g.geoms[i].points]
    ELSE [i \in 1..Len(g.geoms) |->
             IF Len(g.geoms[i].rings) = 0 THEN <<>> ELSE g.geoms[i].rings[1]]

EdgesOf(ring) == { {ring[k], ring[k + 1]} : k \in 1..(Len(ring) - 1) }

FacesWith(rings, edge) == { i \in 1..Len(rings) : edge \in EdgesOf(rings[i]) }

lwpsurface_is_closed(psurface) ==
    \A i \in 1..Len(FaceRings(psurface)) :
        \A edge \in EdgesOf(FaceRings(psurface)[i]) :
            Cardinality(FacesWith(FaceRings(psurface), edge)) = 2

lwtin_is_closed(tin) == lwpsurface_is_closed(tin)

(* Whether the geometry is closed.                                         *)
RECURSIVE lwgeom_is_closed(_)
lwgeom_is_closed_of_empty(geom) ==
    CASE geom.type = LINETYPE -> lwline_is_closed(geom)
      [] geom.type = POLYGONTYPE -> lwpoly_is_closed(geom)
      [] geom.type = CIRCSTRINGTYPE -> lwcircstring_is_closed(geom)
      [] geom.type = COMPOUNDTYPE -> lwcompound_is_closed(geom)
      [] geom.type = TINTYPE -> lwtin_is_closed(geom)
      [] geom.type = POLYHEDRALSURFACETYPE -> lwpsurface_is_closed(geom)
      [] OTHER ->
            IF lwgeom_is_collection(geom)
            THEN \A i \in 1..Len(geom.geoms) : lwgeom_is_closed(geom.geoms[i])
            ELSE TRUE

lwgeom_is_closed(geom) ==
    IF lwgeom_is_empty(geom) THEN FALSE
    ELSE CASE geom.type = LINETYPE -> lwline_is_closed(geom)
           [] geom.type = POLYGONTYPE -> lwpoly_is_closed(geom)
           [] geom.type = CIRCSTRINGTYPE -> lwcircstring_is_closed(geom)
           [] geom.type = COMPOUNDTYPE -> lwcompound_is_closed(geom)
           [] geom.type = TINTYPE -> lwtin_is_closed(geom)
           [] geom.type = POLYHEDRALSURFACETYPE -> lwpsurface_is_closed(geom)
           [] OTHER ->
                 IF lwgeom_is_collection(geom)
                 THEN \A i \in 1..Len(geom.geoms) : lwgeom_is_closed(geom.geoms[i])
                 ELSE TRUE

(* A geometry with its cached box: geom is the tree, flags the BBOX and    *)
(* GEODETIC bits of its flags, bbox the box or NULL_BOX.                   *)
NULL_BOX == [isnull |-> TRUE]

FLAGS(bbox, geodetic) == [bbox |-> bbox, geodetic |-> geodetic]

WithBox(geom, flags, bbox) == [geom |-> geom, flags |-> flags, bbox |-> bbox]

(* All the coordinates of a tree.                                          *)
RECURSIVE Coordinates(_)
Coordinates(g) ==
    { g.points[k] : k \in 1..Len(g.points) }
    \cup UNION { { g.rings[i][k] : k \in 1..Len(g.rings[i]) } : i \in 1..Len(g.rings) }
    \cup UNION { Coordinates(g.geoms[i]) : i \in 1..Len(g.geoms) }

Least(S) == CHOOSE x \in S : \A y \in S : x <= y
Greatest(S) == CHOOSE x \in S : \A y \in S : x >= y

(* A new box is zeroed.                                                    *)
gbox_new(flags) ==
    [isnull |-> FALSE, flags |-> flags, geodetic |-> FALSE,
     xmin |-> 0, xmax |-> 0, ymin |-> 0, ymax |-> 0]

(* The cartesian box is the range of the coordinates; the geodetic box is  *)
(* computed on the unit sphere from the same coordinates, and is kept      *)
(* apart from the cartesian one by its mark.  Nothing is written for a     *)
(* geometry without coordinates.                                           *)
lwgeom_calculate_gbox_cartesian(lwgeom, gbox) ==
    IF Coordinates(lwgeom.geom) = {} THEN gbox
    ELSE [gbox EXCEPT !.xmin = Least({c[1] : c \in Coordinates(lwgeom.geom)}),
                      !.xmax = Greatest({c[1] : c \in Coordinates(lwgeom.geom)}),
                      !.ymin = Least({c[2] : c \in Coordinates(lwgeom.geom)}),
                      !.ymax = Greatest({c[2] : c \in Coordinates(lwgeom.geom)})]

lwgeom_calculate_gbox_geodetic(lwgeom, gbox) ==
    [lwgeom_calculate_gbox_cartesian(lwgeom, gbox) EXCEPT !.geodetic = TRUE]

(* Calculate the gbox for this geometry, a cartesian box or geodetic box,  *)
(* depending on how it is flagged.                                         *)
lwgeom_calculate_gbox(lwgeom, gbox) ==
    IF lwgeom.flags.geodetic
    THEN lwgeom_calculate_gbox_geodetic(lwgeom, [gbox EXCEPT !.flags = lwgeom.flags])
    ELSE lwgeom_calculate_gbox_cartesian(lwgeom, [gbox EXCEPT !.flags = lwgeom.flags])

(* Ensure there's a box in the LWGEOM: if the box is already there just    *)
(* return, else compute it.                                                *)
lwgeom_add_bbox_set(lwgeom) ==
    [lwgeom EXCEPT !.bbox = lwgeom_calculate_gbox(lwgeom, gbox_new(lwgeom.flags))]

lwgeom_add_bbox_of_empty(lwgeom) ==
    IF ~lwgeom.bbox.isnull THEN lwgeom
    ELSE lwgeom_add_bbox_set([lwgeom EXCEPT !.flags.bbox = TRUE])

lwgeom_add_bbox(lwgeom) ==
    IF lwgeom_is_empty(lwgeom.geom) THEN lwgeom
    ELSE IF ~lwgeom.bbox.isnull THEN lwgeom
    ELSE lwgeom_add_bbox_set([lwgeom EXCEPT !.flags.bbox = TRUE])

(* The geometries the entry points are run on, all on the grid 0..4, and   *)
(* the calls made on them.                                                 *)
SRID_A == 4326
SRID_B == 3857

LWPOINT(srid, p) == LWGEOM(POINTTYPE, srid, <<p>>, <<>>, <<>>)

LWLINE(srid, pts) == LWGEOM(LINETYPE, srid, pts, <<>>, <<>>)

Square(a, b) == <<<<a, a>>, <<b, a>>, <<b, b>>, <<a, b>>, <<a, a>>>>

Primitives(srid) ==
    { LWPOINT(srid, <<0, 0>>), LWPOINT(srid, <<2, 1>>), LWPOINT(srid, <<2, 2>>),
      LWLINE(srid, <<<<0, 1>>, <<2, 3>>>>),
      LWLINE(srid, <<<<1, 0>>, <<1, 4>>, <<3, 4>>>>),
      LWGEOM(TRIANGLETYPE, srid, <<<<3, 3>>, <<4, 3>>, <<4, 4>>, <<3, 3>>>>, <<>>, <<>>),
      LWGEOM(CIRCSTRINGTYPE, srid, <<<<0, 4>>, <<1, 4>>, <<2, 4>>>>, <<>>, <<>>),
      LWGEOM(POLYGONTYPE, srid, <<>>,
             <<<<<<3, 0>>, <<4, 0>>, <<4, 2>>, <<3, 2>>, <<3, 0>>>>>>, <<>>),
      LWGEOM(POLYGONTYPE, srid, <<>>,
             <<<<<<0, 0>>, <<4, 0>>, <<0, 4>>, <<0, 0>>>>>>, <<>>),
      LWGEOM(POLYGONTYPE, srid, <<>>, <<Square(0, 4), Square(1, 3)>>, <<>>),
      LWGEOM(CURVEPOLYTYPE, srid, <<>>, <<>>,
             <<LWLINE(srid, <<<<0, 0>>, <<1, 0>>, <<1, 1>>, <<0, 0>>>>)>>) }

Collections(srid) ==
    { LWGEOM(MULTIPOINTTYPE, srid, <<>>, <<>>,
             <<LWPOINT(srid, <<4, 4>>), LWPOINT(srid, <<0, 3>>)>>),
      LWGEOM(COLLECTIONTYPE, srid, <<>>, <<>>,
             <<LWGEOM(POINTTYPE, srid, <<>>, <<>>, <<>>),
               LWLINE(srid, <<<<4, 0>>, <<4, 1>>>>)>>) }

Empties(srid) ==
    { LWGEOM(POINTTYPE, srid, <<>>, <<>>, <<>>),
      LWGEOM(POLYGONTYPE, srid, <<>>, <<>>, <<>>),
      LWGEOM(COLLECTIONTYPE, srid, <<>>, <<>>, <<>>),
      LWGEOM(MULTIPOINTTYPE, srid, <<>>, <<>>,
             <<LWGEOM(POINTTYPE, srid, <<>>, <<>>, <<>>)>>) }

NonEmpty(srid) == Primitives(srid) \cup Collections(srid)

Scales == {0, 133}

MaxTolerance == 3

ApiCall(fn, geom1, geom2, tolerance) ==
    [fn |-> fn, geom1 |-> geom1, geom2 |-> geom2, tolerance |-> tolerance]

ApiTest(family, scale, calls) ==
    [family |-> family, scale |-> scale, calls |-> calls, results |-> <<>>]

NoApi == ApiTest("none", 0, <<>>)

(* Both orders of a pair of non-empty geometries.                          *)
SymmetryTests ==
    { ApiTest("symmetry", 0, <<ApiCall("lw_dist2d_comp", a, b, 0),
                               ApiCall("lw_dist2d_comp", b, a, 0)>>) :
        a \in NonEmpty(SRID_A), b \in NonEmpty(SRID_A) }

(* ST_distance of any two geometries, then LWGEOM_dwithin of the same two. *)
DistanceTests ==
    { ApiTest("distance", scale,
              <<ApiCall("ST_distance", a, b, 0),
                ApiCall("LWGEOM_dwithin", a, b, t)>>) :
        a \in NonEmpty(SRID_A) \cup Empties(SRID_A),
        b \in NonEmpty(SRID_A) \cup Empties(SRID_A),
        scale \in Scales, t \in 0..MaxTolerance }

(* Each entry point on operands of equal and of different SRIDs.           *)
EntryPoints ==
    {"ST_distance", "LWGEOM_closestpoint", "LWGEOM_dwithin", "geography_distance"}

SridTests ==
    { ApiTest("srid", 0, <<ApiCall(fn, a, b, 1)>>) :
        fn \in EntryPoints, a \in Primitives(SRID_A) \cup Empties(SRID_A),
        b \in Primitives(SRID_A) \cup Primitives(SRID_B) }

(* lwgeom_needs_bbox of a geometry of any kind, and of the Lines of 0 to   *)
(* MaxVertices vertices.                                                   *)
MaxVertices == 4

LineOf(srid, n) == LWLINE(srid, [k \in 1..n |-> <<k - 1, (k * k) % 5>>])

NeedsBboxTests ==
    { ApiTest("needs_bbox", 0, <<ApiCall("lwgeom_needs_bbox", g, g, 0)>>) :
        g \in NonEmpty(SRID_A) \cup Empties(SRID_A)
              \cup { LineOf(SRID_A, n) : n \in 0..MaxVertices } }

(* LWGEOM_dwithin of two geometries of which at least one is empty, for    *)
(* every tolerance, +infinity included.                                    *)
EmptyDwithinTests ==
    { ApiTest("empty_dwithin", 0, <<ApiCall("LWGEOM_dwithin", a, b, t)>>) :
        a \in Empties(SRID_A), b \in NonEmpty(SRID_A) \cup Empties(SRID_A),
        t \in (0..MaxTolerance) \cup {HUGE_VAL} }
    \cup
    { ApiTest("empty_dwithin", 0, <<ApiCall("LWGEOM_dwithin", a, b, t)>>) :
        a \in NonEmpty(SRID_A), b \in Empties(SRID_A),
        t \in (0..MaxTolerance) \cup {HUGE_VAL} }

(* Geometry trees whose nodes have different SRIDs, and the call of a      *)
(* function of one geometry.                                               *)
Trees ==
    LET pa == LWPOINT(SRID_A, <<0, 0>>)
        pb == LWPOINT(SRID_B, <<2, 1>>)
        lb == LWLINE(SRID_B, <<<<0, 0>>, <<1, 0>>, <<1, 1>>, <<0, 0>>>>)
        cp == LWGEOM(CURVEPOLYTYPE, SRID_A, <<>>, <<>>, <<lb>>)
        tr == LWGEOM(TRIANGLETYPE, SRID_B, <<<<3, 3>>, <<4, 3>>, <<4, 4>>, <<3, 3>>>>,
                     <<>>, <<>>)
        pg == LWGEOM(POLYGONTYPE, SRID_B, <<>>, <<Square(0, 4), Square(1, 3)>>, <<>>)
    IN  { pa, lb, tr, pg, cp,
          LWGEOM(MULTIPOINTTYPE, SRID_A, <<>>, <<>>, <<pb, pa>>),
          LWGEOM(COLLECTIONTYPE, SRID_A, <<>>, <<>>,
                 <<pb, LWGEOM(COLLECTIONTYPE, SRID_B, <<>>, <<>>,
                              <<pa, LWGEOM(MULTIPOINTTYPE, SRID_A, <<>>, <<>>,
                                           <<pb>>)>>)>>),
          LWGEOM(MULTISURFACETYPE, SRID_B, <<>>, <<>>, <<cp, pg>>),
          LWGEOM(TINTYPE, SRID_A, <<>>, <<>>, <<tr>>),
          LWGEOM(POLYHEDRALSURFACETYPE, SRID_A, <<>>, <<>>, <<pg>>),
          LWGEOM(MULTIPOLYGONTYPE, SRID_A, <<>>, <<>>, <<pg>>),
          LWGEOM(COMPOUNDTYPE, SRID_A, <<>>, <<>>, <<lb>>),
          LWGEOM(COLLECTIONTYPE, SRID_B, <<>>, <<>>, <<>>) }

UnaryCall(fn, geom, srid) == [fn |-> fn, geom |-> geom, srid |-> srid]

(* Collections of closed, unclosed and empty children.                     *)
ClosureTrees ==
    LET ring == LWLINE(SRID_A, <<<<0, 0>>, <<1, 0>>, <<1, 1>>, <<0, 0>>>>)
        open == LWLINE(SRID_A, <<<<0, 1>>, <<2, 3>>>>)
        arc == LWGEOM(CIRCSTRINGTYPE, SRID_A, <<<<0, 0>>, <<1, 1>>, <<0, 0>>>>,
                      <<>>, <<>>)
        pt == LWPOINT(SRID_A, <<2, 2>>)
        nopt == LWGEOM(POINTTYPE, SRID_A, <<>>, <<>>, <<>>)
        tr == LWGEOM(TRIANGLETYPE, SRID_A, <<<<3, 3>>, <<4, 3>>, <<4, 4>>, <<3, 3>>>>,
                     <<>>, <<>>)
        pg == LWGEOM(POLYGONTYPE, SRID_A, <<>>, <<Square(0, 4)>>, <<>>)
    IN  { ring, open, arc,
          LWGEOM(MULTILINETYPE, SRID_A, <<>>, <<>>, <<ring, ring>>),
          LWGEOM(MULTILINETYPE, SRID_A, <<>>, <<>>, <<ring, open>>),
          LWGEOM(MULTICURVETYPE, SRID_A, <<>>, <<>>, <<arc, ring>>),
          LWGEOM(MULTICURVETYPE, SRID_A, <<>>, <<>>, <<open, arc>>),
          LWGEOM(MULTIPOINTTYPE, SRID_A, <<>>, <<>>, <<pt, nopt>>),
          LWGEOM(COLLECTIONTYPE, SRID_A, <<>>, <<>>, <<pt, tr, ring>>),
          LWGEOM(COLLECTIONTYPE, SRID_A, <<>>, <<>>, <<ring, nopt>>),
          LWGEOM(COLLECTIONTYPE, SRID_A, <<>>, <<>>,
                 <<pt, LWGEOM(MULTILINETYPE, SRID_A, <<>>, <<>>, <<ring, open>>)>>),
          LWGEOM(CURVEPOLYTYPE, SRID_A, <<>>, <<>>, <<ring, arc>>),
          LWGEOM(CURVEPOLYTYPE, SRID_A, <<>>, <<>>, <<open>>),
          LWGEOM(MULTISURFACETYPE, SRID_A, <<>>, <<>>,
                 <<pg, LWGEOM(CURVEPOLYTYPE, SRID_A, <<>>, <<>>, <<ring>>)>>),
          LWGEOM(MULTIPOLYGONTYPE, SRID_A, <<>>, <<>>, <<pg, pg>>),
          LWGEOM(TINTYPE, SRID_A, <<>>, <<>>, <<tr, tr>>),
          LWGEOM(COMPOUNDTYPE, SRID_A, <<>>, <<>>, <<open, open>>) }

IsClosedTests ==
    { ApiTest("is_closed", 0, <<UnaryCall("lwgeom_is_closed", g, SRID_A)>>) :
        g \in ClosureTrees \cup Trees \cup NonEmpty(SRID_A) \cup Empties(SRID_A) }

(* lwgeom_add_bbox called twice on one geometry, flagged cartesian or      *)
(* geodetic, without a box or with the box an earlier call gave it.        *)
AddBboxTests ==
    { ApiTest("add_bbox", 0,
              <<UnaryCall("lwgeom_add_bbox", WithBox(g, FLAGS(FALSE, geodetic), NULL_BOX),
                          SRID_A),
                UnaryCall("lwgeom_add_bbox", WithBox(g, FLAGS(FALSE, geodetic), NULL_BOX),
                          SRID_A)>>) :
        g \in NonEmpty(SRID_A) \cup Empties(SRID_A) \cup Trees,
        geodetic \in BOOLEAN }
    \cup
    { ApiTest("add_bbox", 0,
              <<UnaryCall("lwgeom_add_bbox",
                          lwgeom_add_bbox(WithBox(g, FLAGS(FALSE, FALSE), NULL_BOX)),
                          SRID_A),
                UnaryCall("lwgeom_add_bbox",
                          lwgeom_add_bbox(WithBox(g, FLAGS(FALSE, FALSE), NULL_BOX)),
                          SRID_A)>>) :
        g \in Primitives(SRID_A) }

SetSridTests ==
    { ApiTest("set_srid", 0, <<UnaryCall("lwgeom_set_srid", g, srid)>>) :
        g \in Trees, srid \in {SRID_UNKNOWN, SRID_A, SRID_B} }

ApiTests ==
    AddBboxTests \cup IsClosedTests \cup SetSridTests \cup SymmetryTests \cup DistanceTests \cup SridTests \cup NeedsBboxTests
    \cup EmptyDwithinTests

(* The tests whose next call is a call of fn: any test that starts with    *)
(* one before the program has done anything, the running test otherwise.   *)
Pending(fn) ==
    IF pc = "idle" /\ results = <<>>
    THEN { tc \in ApiTests : tc.calls[1].fn = fn }
    ELSE IF /\ pc = "api"
            /\ Len(api.results) < Len(api.calls)
            /\ api.calls[Len(api.results) + 1].fn = fn
         THEN {api}
         ELSE {}

Arg(tc) == tc.calls[Len(tc.results) + 1]

Finish(tc, r) ==
    /\ api' = [tc EXCEPT !.results = Append(@, r)]
    /\ pc' = "api"
    /\ UNCHANGED <<test, state, stack, val, results, hex>>

lw_dist2d_comp_call ==
    \E tc \in Pending("lw_dist2d_comp") :
        Finish(tc, Returned("dl",
                            lw_dist2d_comp(Arg(tc).geom1, Arg(tc).geom2,
                                           lw_dist2d_distpts_init(DIST_MIN, 0)),
                            <<>>))

ST_distance ==
    \E tc \in Pending("ST_distance") :
        Finish(tc, ST_distance_of(Arg(tc).geom1, Arg(tc).geom2, tc.scale))

LWGEOM_closestpoint ==
    \E tc \in Pending("LWGEOM_closestpoint") :
        Finish(tc, LWGEOM_closestpoint_of(Arg(tc).geom1, Arg(tc).geom2))

LWGEOM_dwithin ==
    \E tc \in Pending("LWGEOM_dwithin") :
        Finish(tc, LWGEOM_dwithin_of(Arg(tc).geom1, Arg(tc).geom2, Arg(tc).tolerance))

geography_distance ==
    \E tc \in Pending("geography_distance") :
        Finish(tc, geography_distance_of(Arg(tc).geom1, Arg(tc).geom2))

lwgeom_needs_bbox_call ==
    \E tc \in Pending("lwgeom_needs_bbox") :
        Finish(tc, Returned("boolean", lwgeom_needs_bbox(Arg(tc).geom1), <<>>))

(* The program releases the geometry its last call of lwgeom_from_wkb      *)
(* returned: the answer is the number of objects that were released.  The  *)
(* chains of nested collections are kept until the program ends.           *)
lwgeom_free_call ==
    /\ pc = "idle"
    /\ results # <<>>
    /\ test.family # "chain"
    /\ Len(results) = Len(test.calls)
    /\ results[Len(results)].v.type # "NULL"
    /\ api' = [ApiTest("free", 0,
                       <<ApiCall("lwgeom_free", results[Len(results)].v,
                                 results[Len(results)].v, 0)>>)
                 EXCEPT !.results =
                     <<Returned("released", lwgeom_free(results[Len(results)].v),
                                <<>>)>>]
    /\ pc' = "api"
    /\ UNCHANGED <<test, state, stack, val, results, hex>>

lwgeom_set_srid_call ==
    \E tc \in Pending("lwgeom_set_srid") :
        Finish(tc, Returned("geom", lwgeom_set_srid(Arg(tc).geom, Arg(tc).srid),
                            <<>>))

lwgeom_is_closed_call ==
    \E tc \in Pending("lwgeom_is_closed") :
        Finish(tc, Returned("boolean", lwgeom_is_closed(Arg(tc).geom), <<>>))

(* The first call is made on the geometry of the test, a later call on the *)
(* same geometry as the call before left it.                               *)
lwgeom_add_bbox_call ==
    \E tc \in Pending("lwgeom_add_bbox") :
        Finish(tc, Returned("geom",
                            lwgeom_add_bbox(IF tc.results = <<>> THEN Arg(tc).geom
                                            ELSE tc.results[Len(tc.results)].value),
                            <<>>))

-----------------------------------------------------------------------------
(* The specification                                                       *)

Init ==
    /\ pc = "idle"
    /\ test = NoTest
    /\ state = InitialState(NULL_WKB, 0, LW_PARSER_CHECK_NONE, FALSE)
    /\ stack = <<>>
    /\ val = NULL
    /\ results = <<>>
    /\ hex = NoHex
    /\ api = NoApi

Next ==
    \/ lwgeom_from_wkb
    \/ lwgeom_from_wkb_state
    \/ lwcollection_from_wkb_state_loop
    \/ lwcurvepoly_from_wkb_state_loop
    \/ lwgeom_from_wkb_return
    \/ bytes_from_hexbytes
    \/ lw_dist2d_comp_call
    \/ ST_distance
    \/ LWGEOM_closestpoint
    \/ LWGEOM_dwithin
    \/ geography_distance
    \/ lwgeom_needs_bbox_call
    \/ lwgeom_free_call
    \/ lwgeom_set_srid_call
    \/ lwgeom_is_closed_call
    \/ lwgeom_add_bbox_call

Spec == Init /\ [][Next]_vars

-----------------------------------------------------------------------------
(* Properties                                                              *)

(* The program has made every call of its test; call i returned no         *)
(* geometry.                                                               *)
Done == pc = "idle" /\ results # <<>> /\ Len(results) = Len(test.calls)
Failed(i) == results[i].v.type = "NULL"

(* C1: during any call of lwgeom_from_wkb, whatever the buffer and the     *)
(* declared size, no read touches an offset at or past wkb_size or one     *)
(* that no passing bounds check before it covered, and the parse position  *)
(* never goes past wkb_size.                                               *)
C1_ReadsAreBoundsChecked ==
    /\ ~state.bad_read
    /\ state.pos <= state.wkb_size
    /\ state.checked <= state.wkb_size

(* A truncated buffer of which coordinates were read before a bounds       *)
(* check stopped the parse.                                                *)
C1_Witness ==
    /\ Done
    /\ test.family = "truncation"
    /\ results[1].s.error
    /\ results[1].s.ndoubles > 0
    /\ results[1].s.swap_bytes

(* C2: for every valid buffer of every kind and every k below its length,  *)
(* decoding the first k bytes with declared size k returns no geometry.    *)
C2_TruncationFails ==
    (Done /\ test.family = "truncation") => Failed(1)

(* C3 as stated: 201 levels of nested single-child collections fail with  *)
(* the "too many chained collections" error, and 199 levels decode.        *)
TooManyChained(i) ==
    /\ Failed(i)
    /\ results[i].s.errors # <<>>
    /\ results[i].s.errors[1] = "Geometry has too many chained collections"

C3_Original ==
    (Done /\ test.family = "chain" /\ test.kind = WKB_GEOMETRYCOLLECTION_TYPE) =>
        /\ test.n = 201 => TooManyChained(1)
        /\ test.n = 199 => ~Failed(1)

(* C3, amended: n levels of nested single-child collections around a Point *)
(* fail with the "too many chained collections" error when n is 199 or     *)
(* more (the counter, started at 1, reaches 200 at the 199th collection),  *)
(* and decode to a GeometryCollection, the whole buffer consumed, when n   *)
(* is 198 or less.                                                         *)
C3_ChainedCollections ==
    (Done /\ test.family = "chain" /\ test.kind = WKB_GEOMETRYCOLLECTION_TYPE) =>
        IF test.n >= LW_PARSER_MAX_DEPTH - 1
        THEN TooManyChained(1)
        ELSE /\ ~Failed(1)
             /\ results[1].v.type = COLLECTIONTYPE
             /\ results[1].s.pos = results[1].s.wkb_size
             /\ results[1].s.errors = <<>>

(* The chain of 199 levels has been decoded, and has failed at depth 200.  *)
C3_Witness ==
    /\ Done
    /\ test.family = "chain"
    /\ test.kind = WKB_GEOMETRYCOLLECTION_TYPE
    /\ test.n = LW_PARSER_MAX_DEPTH - 1
    /\ TooManyChained(1)
    /\ results[1].s.depth = LW_PARSER_MAX_DEPTH

(* C4: whatever the buffer, no more than LW_PARSER_MAX_DEPTH calls of      *)
(* lwgeom_from_wkb_state are active at once, whichever readers the nesting *)
(* goes through.                                                           *)
C4_ActiveCallsCapped == state.active <= LW_PARSER_MAX_DEPTH

(* C5: the little-endian and the big-endian encoding of a geometry,        *)
(* decoded with the same checks on the same host, both fail or both give   *)
(* the same tree: the same kinds, SRIDs, Z/M flags and counts, and the     *)
(* same bytes for every coordinate.                                        *)
C5_ByteOrderIndependent ==
    (Done /\ test.family = "endian") => results[1].v = results[2].v

(* Both encodings of the MultiSurface sample have been decoded, one with   *)
(* and one without swapping, and coordinates were read.                    *)
C5_Witness ==
    /\ Done
    /\ test.family = "endian"
    /\ results[1].s.swap_bytes # results[2].s.swap_bytes
    /\ results[1].v.type = MULTISURFACETYPE
    /\ results[2].v.type = MULTISURFACETYPE
    /\ results[2].s.ndoubles > 0

(* NaN among the coordinate values the point tests are built from.         *)
IsNaNCoord(d) == d \in {DNaN, DNaN2}

(* C6: a WKB Point of any dimensionality, in either byte order, decodes    *)
(* without error; the result is the empty point, with the SRID and the Z/M *)
(* flags of the header, exactly when X and Y are both NaN, and otherwise a *)
(* point holding the coordinates as encoded.                               *)
C6_EmptyPointIffXYNaN ==
    (Done /\ test.family = "point") =>
        LET g == results[1].v
            p == test.data
            host == test.calls[1].big_endian
        IN  /\ g.type = POINTTYPE
            /\ results[1].s.errors = <<>>
            /\ ~results[1].s.error
            /\ g.srid = (IF test.n < 0 THEN SRID_UNKNOWN ELSE test.n)
            /\ g.has_z = (test.kind \div 1000 \in {1, 3})
            /\ g.has_m = (test.kind \div 1000 \in {2, 3})
            /\ (g.pa.npoints = 0) = (IsNaNCoord(p[1]) /\ IsNaNCoord(p[2]))
            /\ g.pa.npoints # 0 =>
                  /\ g.pa.npoints = 1
                  /\ \A k \in 1..Len(p) : getDouble(host, g.pa, 0, k - 1) = p[k]

(* A byte-swapped ZM point with the two different NaNs as X and Y has been *)
(* decoded to the empty point.                                             *)
C6_Witness ==
    /\ Done
    /\ test.family = "point"
    /\ test.kind = 3001
    /\ test.data[1] = DNaN
    /\ test.data[2] = DNaN2
    /\ results[1].s.swap_bytes
    /\ results[1].v.type = POINTTYPE
    /\ results[1].v.pa.npoints = 0

(* C7: a header whose type code is mapped to no kind, at the root, as a    *)
(* child of a collection or as a ring of a CurvePolygon, makes the whole   *)
(* decode fail: no geometry is returned.                                   *)
C7_UnknownTypeFails ==
    (Done /\ test.family \in {"unknown_root", "unknown_child", "unknown_ring"}) =>
        Failed(1)

(* The kinds of the type codes 1 to 17.                                    *)
KindOfCode ==
    <<POINTTYPE, LINETYPE, POLYGONTYPE, MULTIPOINTTYPE, MULTILINETYPE,
      MULTIPOLYGONTYPE, COLLECTIONTYPE, CIRCSTRINGTYPE, COMPOUNDTYPE, CURVEPOLYTYPE,
      MULTICURVETYPE, MULTISURFACETYPE, CURVEPOLYTYPE, MULTICURVETYPE,
      POLYHEDRALSURFACETYPE, TINTYPE, TRIANGLETYPE>>

(* C8: a root header with a type code t below 4000 whose last three digits *)
(* are 1 to 17 selects the kind the table gives for t mod 1000, and sets Z *)
(* and M from the thousands of t: 3 both, 2 M only, 1 Z only, 0 neither.   *)
C8_TypeTable ==
    (Done /\ test.family = "type" /\ test.kind < 4000
          /\ test.kind % 1000 \in 1..17) =>
        LET r == results[1]
            z == test.kind \div 1000 \in {1, 3}
            m == test.kind \div 1000 \in {2, 3}
        IN  /\ r.s.lwtype = KindOfCode[test.kind % 1000]
            /\ r.s.has_z = z
            /\ r.s.has_m = m
            /\ ~r.s.has_srid
            /\ r.v.type = KindOfCode[test.kind % 1000]
            /\ r.v.has_z = z
            /\ r.v.has_m = m
            /\ r.s.errors = <<>>

(* The header with type code 3014 has been decoded: a MultiCurve with Z    *)
(* and M.                                                                  *)
C8_Witness ==
    /\ Done
    /\ test.family = "type"
    /\ test.kind = 3014
    /\ results[1].v.type = MULTICURVETYPE
    /\ results[1].v.has_z
    /\ results[1].v.has_m

(* UINT_MAX / 8 / 4, that is 0x07FFFFFF.                                   *)
CountLimit == <<2047, 65535>>

(* C9: a Line, CircularString, Polygon ring or Triangle ring that declares *)
(* more than UINT_MAX / 8 / 4 points, at the root or in a collection,      *)
(* makes the decode fail before any coordinate is read: no geometry is     *)
(* returned.                                                               *)
C9_HugeCountFails ==
    (Done /\ test.family = "huge" /\ U32Gt(test.data, CountLimit)) =>
        /\ Failed(1)
        /\ results[1].s.ndoubles = 0

(* C10: when a call of lwgeom_from_wkb returns no geometry, every point    *)
(* array and every geometry node allocated during that parse has been      *)
(* released.                                                               *)
C10_FailureReleasesAll ==
    \A i \in 1..Len(results) : Failed(i) => results[i].s.live = 0

(* The ring test the program has finished: its type code, shape, number of *)
(* good rings before the ring, and checks.                                 *)
RingDone == Done /\ test.family = "ring"
RingCheck == test.calls[1].check

(* C11: with the MINPOINTS check, a non-empty Line is accepted if and only *)
(* if it has at least 2 points, a non-empty CircularString if and only if  *)
(* it has at least 3 (and, when the ODD check is requested too, an odd     *)
(* number), a Polygon ring or Triangle ring if and only if it has at least *)
(* 4; a violation fails the whole decode, and without the MINPOINTS check  *)
(* no minimum is enforced.  Stated of closed rings, which no closure check *)
(* rejects.                                                                *)
MinPointsOf(code, circ) ==
    CASE code = WKB_LINESTRING_TYPE -> 2
      [] code = WKB_CIRCULARSTRING_TYPE -> circ
      [] OTHER -> 4

MinPointsRule(circ) ==
    (RingDone /\ test.data[1] \in {"closed", "closed_z"} /\ test.n >= 1)
    => (Failed(1) <=>
           \/ LW_PARSER_CHECK_MINPOINTS \in RingCheck
              /\ test.n < MinPointsOf(test.kind, circ)
           \/ test.kind = WKB_CIRCULARSTRING_TYPE
              /\ LW_PARSER_CHECK_ODD \in RingCheck
              /\ test.n % 2 = 0)

C11_Original == MinPointsRule(2)

C11_MinPoints == MinPointsRule(3)

(* A CircularString of two points is rejected under the MINPOINTS check    *)
(* alone.                                                                  *)
C11_Witness ==
    /\ RingDone
    /\ test.kind = WKB_CIRCULARSTRING_TYPE
    /\ test.n = 2
    /\ test.data[1] = "closed"
    /\ RingCheck = {LW_PARSER_CHECK_MINPOINTS}
    /\ Failed(1)

(* The rings of a decoded Polygon or Triangle.                             *)
RingsOf(g) ==
    CASE g.type = POLYGONTYPE -> g.rings
      [] g.type = TRIANGLETYPE -> <<g.pa>>
      [] OTHER -> <<>>

(* C12: with the CLOSURE check requested, every Polygon ring and every     *)
(* Triangle ring of a successfully decoded geometry has its first X,Y      *)
(* equal to its last X,Y, and a ring whose first and last X,Y differ makes *)
(* the whole decode fail.                                                  *)
C12_ClosureEnforced ==
    (/\ RingDone
     /\ LW_PARSER_CHECK_CLOSURE \in RingCheck
     /\ test.kind \in {WKB_POLYGON_TYPE, WKB_TRIANGLE_TYPE})
    => /\ ~Failed(1) =>
              \A k \in 1..Len(RingsOf(results[1].v)) :
                  RingsOf(results[1].v)[k].npoints >= 2
                  => ptarray_is_closed_2d(RingsOf(results[1].v)[k])
       /\ (test.data[1] = "open" /\ test.n >= 2) => Failed(1)

(* C13: a Triangle with ring count 0 decodes to the empty triangle, with   *)
(* ring count exactly 1 to a triangle built from that ring, and with any   *)
(* ring count greater than 1 the whole decode fails without reading any    *)
(* ring: the parse stops behind the ring count, no coordinate read.        *)
C13_TriangleRingCount ==
    (Done /\ test.family = "triangle_rings")
    => LET v == results[1].v
           h == test.calls[1].big_endian
       IN  CASE test.data = U32(0) ->
                  /\ ~Failed(1)
                  /\ v.type = TRIANGLETYPE
                  /\ v.pa.npoints = 0
             [] test.data = U32(1) ->
                  /\ ~Failed(1)
                  /\ v.type = TRIANGLETYPE
                  /\ v.pa.npoints = Len(Ring2)
                  /\ \A n \in 1..Len(Ring2) : \A k \in 1..2 :
                         getDouble(h, v.pa, n - 1, k - 1) = Ring2[n][k]
             [] OTHER ->
                  /\ Failed(1)
                  /\ results[1].s.pos = WKB_BYTE_SIZE + 2 * WKB_INT_SIZE
                  /\ results[1].s.ndoubles = 0
                  /\ results[1].s.errors = <<"Triangle has wrong number of rings">>

(* A Triangle announcing two rings has been refused.                       *)
C13_Witness ==
    /\ Done
    /\ test.family = "triangle_rings"
    /\ test.data = U32(2)
    /\ Failed(1)

(* C14: when a non-empty PolyhedralSurface is decoded, whatever checks the *)
(* caller requested, a Polygon face with a ring whose first and last Z     *)
(* differ makes the decode fail.                                           *)
C14_ZClosureForced ==
    (Done /\ test.family = "polyhedral" /\ test.data = "open_z") => Failed(1)

(* C15: bytes_from_hexbytes(hexbuf, hexsize) returns no buffer if and only *)
(* if hexsize is odd or one of the first hexsize characters is not in      *)
(* 0-9, A-F, a-f, whatever the char values; otherwise it returns hexsize/2 *)
(* bytes, byte i being 16 * value(hexbuf[2i]) + value(hexbuf[2i+1]); and   *)
(* no lookup indexes outside the 256-entry table.                          *)
HexValue(c) ==
    IF c \in 48..57 THEN c - 48 ELSE IF c \in 65..70 THEN c - 55 ELSE c - 87

IsHexDigit(c) == c \in (48..57) \cup (65..70) \cup (97..102)

C15_HexDecoding ==
    hex.ret # "none"
    => /\ hex.ret = "null" <=>
              \/ hex.hexsize % 2 = 1
              \/ \E k \in 1..hex.hexsize : ~IsHexDigit(hex.hexbuf[k])
       /\ hex.ret = "buf" =>
              /\ Len(hex.buf) = hex.hexsize \div 2
              /\ \A i \in 1..Len(hex.buf) :
                     hex.buf[i] = 16 * HexValue(hex.hexbuf[2 * i - 1])
                                  + HexValue(hex.hexbuf[2 * i])
       /\ ~hex.outside

(* The witness w, <<xn, yn, d>>, lies on the segment A-B, on the point     *)
(* array pa, on the geometry g (on a boundary, or in the area of a         *)
(* Polygon or CurvePolygon).                                               *)
WitnessOnSegment(w, A, B) ==
    /\ (B[1] - A[1]) * (w[2] - A[2] * w[3]) = (B[2] - A[2]) * (w[1] - A[1] * w[3])
    /\ (w[1] - A[1] * w[3]) * (B[1] - A[1]) + (w[2] - A[2] * w[3]) * (B[2] - A[2]) >= 0
    /\ (w[1] - A[1] * w[3]) * (B[1] - A[1]) + (w[2] - A[2] * w[3]) * (B[2] - A[2])
           <= Len2(A, B) * w[3]

WitnessOnArray(w, pa) ==
    IF Len(pa) = 1 THEN w[1] = pa[1][1] * w[3] /\ w[2] = pa[1][2] * w[3]
    ELSE \E k \in 1..(Len(pa) - 1) : WitnessOnSegment(w, pa[k], pa[k + 1])

RECURSIVE WitnessOn(_, _)
WitnessOn(w, g) ==
    IF lw_dist2d_is_collection(g)
    THEN \E k \in 1..Len(g.geoms) : WitnessOn(w, g.geoms[k])
    ELSE /\ ~lwgeom_is_empty(g)
         /\ \/ \E k \in 1..Len(Boundaries(g)) : WitnessOnArray(w, Boundaries(g)[k])
            \/ IsArea(g) /\ w[3] = 1 /\ ContainsPoint(g, <<w[1], w[2]>>)

(* An engine test of both orders of a pair has been run.                   *)
SymmetryDone ==
    pc = "api" /\ api.family = "symmetry" /\ Len(api.results) = Len(api.calls)

DistanceCalled == pc = "api" /\ api.family = "distance" /\ Len(api.results) >= 1

AnyEmpty(call) == lwgeom_is_empty(call.geom1) \/ lwgeom_is_empty(call.geom2)

(* C17: ST_distance answers null if and only if at least one operand is    *)
(* empty; for every pair of non-empty operands it returns the computed     *)
(* minimum distance as a number, zero included.                            *)
C17_NullIffEmpty ==
    DistanceCalled
    => /\ api.results[1].ret = "null" <=> AnyEmpty(api.calls[1])
       /\ ~AnyEmpty(api.calls[1])
          => /\ api.results[1].ret = "number"
             /\ api.results[1].value
                    = lwgeom_mindistance2d(api.calls[1].geom1, api.calls[1].geom2)

(* ST_distance and then LWGEOM_dwithin have been run on the same pair.     *)
DistanceDone ==
    pc = "api" /\ api.family = "distance" /\ Len(api.results) = Len(api.calls)

(* C18: for non-empty operands of one SRID and a tolerance t >= 0,         *)
(* LWGEOM_dwithin answers true if and only if the minimum distance that    *)
(* ST_distance returns for the two is at most t.                           *)
C18_DwithinIsDistanceLeq ==
    (DistanceDone /\ ~AnyEmpty(api.calls[1]))
    => /\ api.results[2].ret = "boolean"
       /\ api.results[2].value
              <=> /\ api.results[1].ret = "number"
                  /\ FracLeq(api.results[1].value,
                             Frac(Sq(api.calls[2].tolerance), 1))

(* An entry point has been run on a pair of operands that may differ in    *)
(* SRID.                                                                   *)
SridDone == pc = "api" /\ api.family = "srid" /\ Len(api.results) = Len(api.calls)

GeometricWork ==
    {"lwgeom_from_gserialized", "lwgeom_mindistance2d",
     "lwgeom_mindistance2d_tolerance", "lwgeom_closest_point",
     "geography_tree_distance"}

(* C19: in every binary measurement entry point the SRID check comes       *)
(* before any geometric work; when the SRIDs differ the error is raised    *)
(* with no operand decoded and no distance computed.                       *)
C19_SridCheckFirst ==
    SridDone
    => /\ SridMismatch(api.calls[1].geom1, api.calls[1].geom2)
          => /\ api.results[1].ret = "error"
             /\ \A k \in 1..Len(api.results[1].events) :
                    api.results[1].events[k] \notin GeometricWork
       /\ api.results[1].events[1] = "gserialized_error_if_srid_mismatch"

(* lwgeom_needs_bbox has been run on a geometry.                           *)
NeedsBboxDone ==
    pc = "api" /\ api.family = "needs_bbox" /\ Len(api.results) = Len(api.calls)

(* The answer is false exactly for a Point and for a Line whose number of  *)
(* vertices is in counts.                                                  *)
NeedsBboxRule(counts) ==
    NeedsBboxDone
    => (api.results[1].value = FALSE
        <=> \/ api.calls[1].geom1.type = POINTTYPE
            \/ /\ api.calls[1].geom1.type = LINETYPE
               /\ Len(api.calls[1].geom1.points) \in counts)

(* C20 as stated: lwgeom_needs_bbox returns false only for a Point and for *)
(* a Line with exactly 2 vertices, and true for every other geometry.      *)
C20_Original == NeedsBboxRule({2})

(* C20: lwgeom_needs_bbox returns false only for a Point and for a Line    *)
(* with at most 2 vertices (0, 1 or 2), and true for every other geometry. *)
C20_NeedsBbox == NeedsBboxRule({0, 1, 2})

(* A Line of a single vertex got the answer false.                         *)
C20_Witness ==
    /\ NeedsBboxDone
    /\ api.calls[1].geom1.type = LINETYPE
    /\ Len(api.calls[1].geom1.points) = 1
    /\ api.results[1].value = FALSE

(* C23: when any of the top 4 bits of the type word is set, has-Z, has-M   *)
(* and has-SRID are given by the bits 0x80000000, 0x40000000 and           *)
(* 0x20000000 alone, whatever the thousands of the type code.              *)
C23_ExtendedFlagsOnly ==
    (Done /\ test.family = "extended") =>
        /\ results[1].s.has_z = (BitAnd(test.n, WKBZOFFSET[1]) # 0)
        /\ results[1].s.has_m = (BitAnd(test.n, WKBMOFFSET[1]) # 0)
        /\ results[1].s.has_srid = (BitAnd(test.n, WKBSRIDFLAG[1]) # 0)

(* C27: every (sub-)geometry is decoded with the byte order its own endian *)
(* byte declares: a collection or CurvePolygon whose children are encoded  *)
(* in another byte order than the parent, or than each other, decodes to   *)
(* the same tree as the uniformly encoded buffer.                          *)
C27_OwnByteOrder ==
    (Done /\ test.family = "mixed") =>
        /\ ~Failed(1)
        /\ results[1].v = results[2].v
        /\ results[1].s.errors = <<>>

(* A little-endian collection whose first child is big-endian and whose    *)
(* second child is little-endian again has been decoded.                   *)
C27_Witness ==
    /\ Done
    /\ test.family = "mixed"
    /\ test.le
    /\ test.data = <<FALSE, TRUE>>
    /\ ~Failed(1)
    /\ Len(results[1].v.geoms) = 2

(* The SRID a header gives when it carries wire (-1: no SRID flag) and the *)
(* SRID before it was before: the value on the wire, 1000000 clamped into  *)
(* the reserved range.                                                     *)
SridAfter(before, wire) ==
    IF wire = -1 THEN before
    ELSE IF wire = 1000000 THEN 999001
    ELSE wire

(* C28: a sub-geometry whose header has no SRID flag is built with the     *)
(* SRID most recently read from an earlier header of the same parse,       *)
(* SRID_UNKNOWN if none, also after a subtree has been left; when the root *)
(* alone carries an SRID every node has the root's clamped SRID.           *)
C28_SridCarriedOver ==
    (Done /\ test.family = "srid_tree") =>
        LET g == results[1].v
            root == SridAfter(SRID_UNKNOWN, test.data[1])
            first == SridAfter(root, test.data[2])
            inner == SridAfter(first, test.data[3])
        IN  /\ ~Failed(1)
            /\ g.srid = root
            /\ g.geoms[1].srid = first
            /\ g.geoms[2].srid = first
            /\ g.geoms[3].srid = first
            /\ g.geoms[3].geoms[1].srid = inner
            /\ g.geoms[4].srid = inner

(* The tree has been decoded with an SRID on the inner Point alone: the    *)
(* CircularString after the inner collection has it, the nodes before it   *)
(* have none.                                                              *)
C28_Witness ==
    /\ Done
    /\ test.family = "srid_tree"
    /\ test.data = <<-1, -1, 3857>>
    /\ results[1].v.srid = SRID_UNKNOWN
    /\ results[1].v.geoms[4].srid = 3857

(* C29: a geometry decoded after a PolyhedralSurface in the same parse, a  *)
(* later sibling in the enclosing collection, is checked with the flags    *)
(* the caller passed: it is accepted or rejected, and decoded, as it is    *)
(* when no surface comes before it.                                        *)
C29_ZClosureConfined ==
    (Done /\ test.family = "after_surface") =>
        /\ Failed(1) <=> Failed(2)
        /\ ~Failed(1) => results[1].v.geoms[2] = results[2].v.geoms[1]

(* C30: when a decode returns a geometry, the same bytes followed by any   *)
(* other bytes, declared with them, decode to the identical tree: the      *)
(* bytes after the root geometry are not read and cause no failure.        *)
C30_TrailingBytesIgnored ==
    (Done /\ test.family = "trailing" /\ ~Failed(1)) =>
        /\ ~Failed(2)
        /\ results[2].v = results[1].v
        /\ results[2].s.pos = results[1].s.pos

(* C22: for a root geometry of every kind, lwgeom_free releases the root   *)
(* and all of its descendants: every object the tree is made of.           *)
C22_FreeReleasesTree ==
    (pc = "api" /\ api.family = "free") =>
        api.results[1].value = Objects(api.calls[1].geom1)

(* C24: LWGEOM_dwithin returns false for every tolerance >= 0 whenever at  *)
(* least one operand is empty.                                             *)
C24_EmptyNeverWithin ==
    (pc = "api" /\ api.family = "empty_dwithin" /\ Len(api.results) = 1) =>
        /\ api.results[1].ret = "boolean"
        /\ api.results[1].value = FALSE

(* Every node of the tree g, at any depth, has the SRID srid; the tree g   *)
(* with the SRID of every node set to srid.                                *)
RECURSIVE AllSrid(_, _)
AllSrid(g, srid) ==
    /\ g.srid = srid
    /\ \A i \in 1..Len(g.geoms) : AllSrid(g.geoms[i], srid)

RECURSIVE WithSrid(_, _)
WithSrid(g, srid) ==
    [g EXCEPT !.srid = srid,
              !.geoms = [i \in 1..Len(g.geoms) |-> WithSrid(g.geoms[i], srid)]]

SetSridDone ==
    pc = "api" /\ api.family = "set_srid" /\ Len(api.results) = Len(api.calls)

(* C26: after lwgeom_set_srid(g, s) the geometry g and every descendant    *)
(* reachable through collection children at any depth, the rings of a      *)
(* CurvePolygon included, has the SRID s, and nothing else in the tree is  *)
(* changed.                                                                *)
C26_SridSetTopDown ==
    SetSridDone =>
        /\ AllSrid(api.results[1].value, api.calls[1].srid)
        /\ WithSrid(api.results[1].value, SRID_UNKNOWN)
              = WithSrid(api.calls[1].geom, SRID_UNKNOWN)

(* The SRID of a collection two levels deep has been set: the Point of the *)
(* MultiPoint in the inner collection had another SRID before.             *)
C26_Witness ==
    /\ SetSridDone
    /\ api.calls[1].geom.type = COLLECTIONTYPE
    /\ Len(api.calls[1].geom.geoms) = 2
    /\ api.calls[1].geom.geoms[2].geoms[2].geoms[1].srid # api.calls[1].srid
    /\ api.results[1].value.geoms[2].geoms[2].geoms[1].srid = api.calls[1].srid

IsClosedDone ==
    pc = "api" /\ api.family = "is_closed" /\ Len(api.results) = Len(api.calls)

(* The kinds whose closure is that of their children: MULTI*, Collection   *)
(* and CurvePolygon.                                                       *)
ChildClosedKinds ==
    {MULTIPOINTTYPE, MULTILINETYPE, MULTIPOLYGONTYPE, MULTICURVETYPE,
     MULTISURFACETYPE, COLLECTIONTYPE, CURVEPOLYTYPE}

(* C25: lwgeom_is_closed returns false for every empty geometry; for a     *)
(* non-empty MULTI*, Collection or CurvePolygon it returns true if and     *)
(* only if every child is closed, so not when a child is empty; a          *)
(* non-empty Point or Triangle is closed.                                  *)
C25_IsClosed ==
    IsClosedDone =>
        /\ lwgeom_is_empty(api.calls[1].geom) => ~api.results[1].value
        /\ (~lwgeom_is_empty(api.calls[1].geom)
            /\ api.calls[1].geom.type \in ChildClosedKinds)
           => /\ api.results[1].value
                    <=> \A i \in 1..Len(api.calls[1].geom.geoms) :
                           lwgeom_is_closed(api.calls[1].geom.geoms[i])
              /\ (\E i \in 1..Len(api.calls[1].geom.geoms) :
                      lwgeom_is_empty(api.calls[1].geom.geoms[i]))
                 => ~api.results[1].value
        /\ (~lwgeom_is_empty(api.calls[1].geom)
            /\ api.calls[1].geom.type \in {POINTTYPE, TRIANGLETYPE})
           => api.results[1].value

(* A non-empty Collection of a closed Line and an empty Point has been     *)
(* found not closed.                                                       *)
C25_Witness ==
    /\ IsClosedDone
    /\ api.calls[1].geom.type = COLLECTIONTYPE
    /\ Len(api.calls[1].geom.geoms) = 2
    /\ lwgeom_is_closed(api.calls[1].geom.geoms[1])
    /\ lwgeom_is_empty(api.calls[1].geom.geoms[2])
    /\ ~api.results[1].value

AddBboxDone ==
    pc = "api" /\ api.family = "add_bbox" /\ Len(api.results) = Len(api.calls)

(* C21: lwgeom_add_bbox called twice on a non-empty geometry gives the     *)
(* same box both times, and the second call changes no field of the        *)
(* geometry; called on an empty geometry it attaches no box and changes    *)
(* nothing.                                                                *)
C21_AddBboxOnce ==
    AddBboxDone =>
        /\ api.results[2].value = api.results[1].value
        /\ api.results[1].value.geom = api.calls[1].geom.geom
        /\ ~lwgeom_is_empty(api.calls[1].geom.geom)
           => /\ ~api.results[1].value.bbox.isnull
              /\ api.results[2].value.bbox = api.results[1].value.bbox
        /\ lwgeom_is_empty(api.calls[1].geom.geom)
           => /\ api.results[1].value = api.calls[1].geom
              /\ api.results[1].value.bbox.isnull

(* The box of a non-empty geometry that had none was computed by the first *)
(* call, the range 3..4 of X, and was still there after the second.        *)
C21_Witness ==
    /\ AddBboxDone
    /\ api.calls[1].geom.bbox.isnull
    /\ ~api.results[1].value.bbox.isnull
    /\ api.results[1].value.bbox.xmin = 3
    /\ api.results[1].value.bbox.xmax = 4
    /\ api.results[1].value.flags.bbox
    /\ api.results[2].value = api.results[1].value

=============================================================================
